---- MODULE Spec2Model ----
(***************************************************************************)
(* Workflow orchestrator of the Weavy.ai clone (src/trigger/orchestrator.ts *)
(* and the server actions that start it).  The stored graph, the layer     *)
(* planner, the per-layer trigger / poll phases of orchestrator.run and    *)
(* the persisted WorkflowRun / NodeExecution records are modelled.         *)
(***************************************************************************)
EXTENDS Integers, Sequences, FiniteSets, TLC

VARIABLES
    nodes,         \* graph.nodes of the stored workflow: sequence of NodeData
    edges,         \* graph.edges of the stored workflow: sequence of EdgeData
    mode,          \* which entry point this behaviour exercises
    planned,       \* TRUE once getExecutionLayers has returned
    layers,        \* result of getExecutionLayers: sequence of layers of node ids
    runStatus,     \* persisted WorkflowRun.status ("none": no record yet)
    statusLog,     \* every status written to the WorkflowRun record, in order
    queued,        \* deliveries of {runId} handed to the orchestrator, not yet started
    deliveries,    \* number of orchestrator executions started for the run
    phase,         \* position of orchestrator.run
    layerIdx,      \* index of the layer being executed
    context,       \* ExecutionContext: node id -> output
    execs,         \* persisted NodeExecution records: node id -> records, oldest first
    tf,            \* position of each started triggerFn of the current execution
    task,          \* status of the unit of work behind each handle
    pendingTasks,  \* pendingTasks of the current layer, in push order
    pollIdx,       \* index of the pendingTasks entry a polling loop is at
    ctxWrites,     \* history: assignments to context[id] made by this execution
    dispatched,    \* history: payloads passed to trigger() for each node id
    dbErrors,      \* history: the persistence writes of this execution that threw
    request,       \* body of the POST to /api/llm/execute
    dpc,           \* position of the POST handler and of executeGeminiWithRetry
    attempt,       \* loop variable of executeGeminiWithRetry
    calls,         \* history: number of executeGemini invocations
    waits,         \* history: the backoff waits made, in ms
    thrown,        \* outcome of the generation call of the latest attempt
    result,        \* value returned by the latest executeGemini call
    httpStatus,    \* status of the response (0: none sent yet)
    workflows,     \* Workflow table in creation order; a workflow's id is its position
    wfRuns,        \* WorkflowRun table in creation order; a run's id is its position
    triggered,     \* runIds passed to tasks.trigger("workflow-orchestrator"), in order
    call,          \* the server action in progress, between two of its awaits
    reply,         \* what the latest finished server action returned
    workflowName,  \* workflowStore: name shown in the header
    workflowId,    \* workflowStore: id of the saved workflow (0: the empty string)
    file,          \* the JSON document of the latest download made by handleShare
    shared,        \* history: the graph on the canvas when handleShare made the file
    event,         \* history: the latest Header handler and what it told the user
    runner,        \* handleRun of the header: its position, isRunning, isSaving, ids
    sorted         \* what the sequential planner getTopologicalOrder returned

graphVars == <<nodes, edges, mode>>
planVars  == <<planned, layers>>
runVars   == <<runStatus, statusLog, queued, deliveries>>
coordVars == <<phase, layerIdx, pendingTasks, pollIdx>>
nodeVars  == <<context, execs, tf, task>>
histVars  == <<ctxWrites, dispatched, dbErrors>>
directVars == <<request, dpc, attempt, calls, waits, thrown, result, httpStatus>>
accessVars == <<workflows, wfRuns, triggered, call, reply>>
editorVars == <<workflowName, workflowId, file, shared, event, runner>>
seqVars == <<sorted>>

vars == <<nodes, edges, mode, planned, layers, runStatus, statusLog, queued,
          deliveries, phase, layerIdx, context, execs, tf, task, pendingTasks,
          pollIdx, ctxWrites, dispatched, dbErrors, request, dpc, attempt, calls, waits,
          thrown, result, httpStatus, workflows, wfRuns, triggered, call, reply,
          workflowName, workflowId, file, shared, event, runner, sorted>>

\* ---------------------------------------------------------------- bounds
MaxPlanNodes == 3
MaxPlanEdges == 3

\* ---------------------------------------------------------------- helpers
Undefined == "undefined"

Range(s) == {s[i] : i \in 1..Len(s)}

SeqsUpTo(S, n) == UNION {[1..k -> S] : k \in 0..n}

Last(s) == s[Len(s)]

Min(S) == CHOOSE k \in S : \A m \in S : k <= m

Max(S) == CHOOSE k \in S : \A m \in S : m <= k

\* ------------------------------------------------------------ data types
NodeData(id, type, data) == [id |-> id, type |-> type, data |-> data]

EdgeData(source, target, targetHandle) ==
    [source |-> source, target |-> target, targetHandle |-> targetHandle]

NoData == [text |-> Undefined, url |-> Undefined, imageUrl |-> Undefined,
           videoUrl |-> Undefined, prompt |-> Undefined]

\* ------------------------------------------------- getExecutionLayers
\* Keys of a Map filled by nodes.forEach: ids in first-insertion order.
RECURSIVE MapKeys(_)
MapKeys(ns) ==
    IF ns = <<>> THEN <<>>
    ELSE LET r == MapKeys(SubSeq(ns, 1, Len(ns) - 1))
             x == ns[Len(ns)].id
         IN  IF x \in Range(r) THEN r ELSE Append(r, x)

\* edges.forEach: only edges whose two ends are known nodes are counted.
RECURSIVE BuildGraph(_, _, _)
BuildGraph(es, inDegree, adj) ==
    IF es = <<>> THEN [inDegree |-> inDegree, adj |-> adj]
    ELSE LET e == Head(es)
         IN  IF e.source \in DOMAIN adj /\ e.target \in DOMAIN adj
             THEN BuildGraph(Tail(es),
                             [inDegree EXCEPT ![e.target] = @ + 1],
                             [adj EXCEPT ![e.source] = Append(@, e.target)])
             ELSE BuildGraph(Tail(es), inDegree, adj)

\* variant of StartQueue that forgets the in-degree test
StartQueueAll(keys, inDegree) == keys

\* inDegree.forEach: the start queue holds the zero in-degree ids in Map order.
RECURSIVE StartQueue(_, _)
StartQueue(keys, inDegree) ==
    IF keys = <<>> THEN <<>>
    ELSE IF inDegree[Head(keys)] = 0
         THEN <<Head(keys)>> \o StartQueue(Tail(keys), inDegree)
         ELSE StartQueue(Tail(keys), inDegree)

\* inner for loop: decrement each neighbour, queue it when it reaches zero.
RECURSIVE ProcessNeighbors(_, _, _)
ProcessNeighbors(neighbors, inDegree, queue) ==
    IF neighbors = <<>> THEN [inDegree |-> inDegree, queue |-> queue]
    ELSE LET nb == Head(neighbors)
             d  == [inDegree EXCEPT ![nb] = @ - 1]
         IN  ProcessNeighbors(Tail(neighbors), d,
                              IF d[nb] = 0 THEN Append(queue, nb) ELSE queue)

\* for (const id of currentLayerIds)
RECURSIVE ProcessLayer(_, _, _, _)
ProcessLayer(ids, adj, inDegree, queue) ==
    IF ids = <<>> THEN [inDegree |-> inDegree, queue |-> queue]
    ELSE LET r == ProcessNeighbors(adj[Head(ids)], inDegree, queue)
         IN  ProcessLayer(Tail(ids), adj, r.inDegree, r.queue)

\* while (queue.length > 0)
RECURSIVE PeelLayers(_, _, _, _)
PeelLayers(queue, adj, inDegree, acc) ==
    IF queue = <<>> THEN acc
    ELSE LET r == ProcessLayer(queue, adj, inDegree, <<>>)
         IN  PeelLayers(r.queue, adj, r.inDegree, Append(acc, queue))

\* variant of getExecutionLayers that gives every node a layer of its own, in
\* the order of the peeling
getExecutionLayersSerial(ns, es) ==
    LET keys == MapKeys(ns)
        g    == BuildGraph(es, [id \in Range(keys) |-> 0],
                               [id \in Range(keys) |-> <<>>])
        ls   == PeelLayers(StartQueue(keys, g.inDegree), g.adj, g.inDegree, <<>>)
        RECURSIVE Flat(_)
        Flat(l) == IF l = <<>> THEN <<>> ELSE Head(l) \o Flat(Tail(l))
    IN  [i \in 1..Len(Flat(ls)) |-> <<Flat(ls)[i]>>]

\* variant of getExecutionLayers that appends the nodes the peeling never
\* queued as a last layer
getExecutionLayersKeepAll(ns, es) ==
    LET keys == MapKeys(ns)
        g    == BuildGraph(es, [id \in Range(keys) |-> 0],
                               [id \in Range(keys) |-> <<>>])
        ls   == PeelLayers(StartQueue(keys, g.inDegree), g.adj, g.inDegree, <<>>)
        rest == SelectSeq(keys, LAMBDA id : \A i \in 1..Len(ls) : id \notin Range(ls[i]))
    IN  IF rest = <<>> THEN ls ELSE Append(ls, rest)

getExecutionLayers(ns, es) ==
    LET keys == MapKeys(ns)
        g    == BuildGraph(es, [id \in Range(keys) |-> 0],
                               [id \in Range(keys) |-> <<>>])
    IN  PeelLayers(StartQueue(keys, g.inDegree), g.adj, g.inDegree, <<>>)

\* while (queue.length > 0) of the sequential planner: queue.shift(), push to
\* sorted, then the same neighbour loop
RECURSIVE TopoLoop(_, _, _, _)
TopoLoop(queue, adj, inDegree, acc) ==
    IF queue = <<>> THEN acc
    ELSE LET r == ProcessNeighbors(adj[Head(queue)], inDegree, Tail(queue))
         IN  TopoLoop(r.queue, adj, r.inDegree, Append(acc, Head(queue)))

\* variant of getTopologicalOrder that takes the newest id of the queue
\* (queue.pop() instead of queue.shift())
getTopologicalOrderLifo(ns, es) ==
    LET keys == MapKeys(ns)
        g    == BuildGraph(es, [id \in Range(keys) |-> 0],
                               [id \in Range(keys) |-> <<>>])
        RECURSIVE Loop(_, _, _)
        Loop(queue, inDegree, acc) ==
            IF queue = <<>> THEN acc
            ELSE LET cur == queue[Len(queue)]
                     r   == ProcessNeighbors(g.adj[cur], inDegree,
                                             SubSeq(queue, 1, Len(queue) - 1))
                 IN  Loop(r.queue, r.inDegree, Append(acc, cur))
    IN  Loop(StartQueue(keys, g.inDegree), g.inDegree, <<>>)

\* the sequential planner of the earlier orchestrator; the model keeps the ids
\* of the nodes it returns
getTopologicalOrder(ns, es) ==
    LET keys == MapKeys(ns)
        g    == BuildGraph(es, [id \in Range(keys) |-> 0],
                               [id \in Range(keys) |-> <<>>])
    IN  TopoLoop(StartQueue(keys, g.inDegree), g.adj, g.inDegree, <<>>)

\* nodes.find(n => n.id === id)
NodeOf(ns, id) == ns[CHOOSE i \in 1..Len(ns) :
                        /\ ns[i].id = id
                        /\ \A j \in 1..(i - 1) : ns[j].id # id]

\* ----------------------------------------------------- graph predicates
NodeIds(ns) == {ns[i].id : i \in 1..Len(ns)}

UniqueIds(ns) == \A i, j \in 1..Len(ns) : ns[i].id = ns[j].id => i = j

NoDangling(ns, es) ==
    \A k \in 1..Len(es) : es[k].source \in NodeIds(ns) /\ es[k].target \in NodeIds(ns)

Succs(es, S) == {es[k].target : k \in {j \in 1..Len(es) : es[j].source \in S}}

RECURSIVE ReachFrom(_, _)
ReachFrom(es, S) ==
    LET T == S \cup Succs(es, S) IN IF T = S THEN S ELSE ReachFrom(es, T)

\* ids reachable from id by a path of at least one edge
Descendants(es, id) == ReachFrom(es, Succs(es, {id}))

HasCycle(ns, es) == \E id \in NodeIds(ns) : id \in Descendants(es, id)

ValidDAG(ns, es) == UniqueIds(ns) /\ NoDangling(ns, es) /\ ~HasCycle(ns, es)

LayerIndex(ls, id) ==
    IF \E i \in 1..Len(ls) : id \in Range(ls[i])
    THEN CHOOSE i \in 1..Len(ls) : id \in Range(ls[i])
    ELSE 0

\* number of (layer, position) slots holding id
RECURSIVE Occurrences(_, _)
Occurrences(ls, id) ==
    IF ls = <<>> THEN 0
    ELSE Cardinality({p \in 1..Len(Head(ls)) : Head(ls)[p] = id}) + Occurrences(Tail(ls), id)

RECURSIVE TotalCount(_)
TotalCount(ls) == IF ls = <<>> THEN 0 ELSE Len(Head(ls)) + TotalCount(Tail(ls))

\* ------------------------------------------------------- planner inputs
PlanNodeLists == {[i \in 1..n |-> NodeData(i, "llmNode", NoData)] : n \in 1..MaxPlanNodes}

PlanEdgeSet == {EdgeData(s, t, Undefined) : s \in 1..MaxPlanNodes, t \in 1..MaxPlanNodes}

\* state of a process in which orchestrator.run has not been entered
NotSorted == [done |-> FALSE, order |-> <<>>]

Idle ==
    /\ sorted = NotSorted
    /\ planned = FALSE
    /\ layers = <<>>
    /\ runStatus = "none"
    /\ statusLog = <<>>
    /\ queued = 0
    /\ deliveries = 0
    /\ phase = "idle"
    /\ layerIdx = 0
    /\ context = <<>>
    /\ execs = <<>>
    /\ tf = <<>>
    /\ task = <<>>
    /\ pendingTasks = <<>>
    /\ pollIdx = 0
    /\ ctxWrites = <<>>
    /\ dispatched = <<>>
    /\ dbErrors = {}

NoRequest == [body |-> Undefined, prompt |-> <<>>, systemPrompt |-> <<>>,
              imageUrls |-> <<>>]

NoResult == [success |-> FALSE, error |-> [text |-> Undefined, marks |-> {}]]

NoCall == [action |-> Undefined, userId |-> Undefined, workflowId |-> 0, runId |-> 0]

NoReply == [action |-> Undefined, userId |-> Undefined, workflowId |-> 0,
            success |-> FALSE, runs |-> <<>>, runId |-> 0]

\* no server action has been called
NoFile == [kind |-> "none", name |-> Undefined, nodes |-> <<>>, edges |-> <<>>]

NoShared == [nodes |-> <<>>, edges |-> <<>>]

NoEvent == [handler |-> Undefined, alert |-> Undefined, own |-> FALSE, graph |-> "none"]

\* handleRun has not been called: isRunning and isSaving are false
NoRunner == [pos |-> "idle", isRunning |-> FALSE, isSaving |-> FALSE, currentId |-> 0,
             savedId |-> 0, called |-> <<>>, outcome |-> "none"]

\* state of a process in which the editor is not open
EditorIdle ==
    /\ workflowName = "Untitled"
    /\ workflowId = 0
    /\ file = NoFile
    /\ shared = NoShared
    /\ event = NoEvent
    /\ runner = NoRunner

AccessIdle ==
    /\ workflows = <<>>
    /\ wfRuns = <<>>
    /\ triggered = <<>>
    /\ call = NoCall
    /\ reply = NoReply

\* no request has been posted to the direct route
DirectIdle ==
    /\ request = NoRequest
    /\ dpc = "off"
    /\ attempt = 0
    /\ calls = 0
    /\ waits = <<>>
    /\ thrown = [kind |-> "none", marks |-> {}]
    /\ result = NoResult
    /\ httpStatus = 0

InitPlan ==
    /\ nodes \in PlanNodeLists
    /\ edges \in SeqsUpTo(PlanEdgeSet, MaxPlanEdges)
    /\ mode = "plan"
    /\ Idle
    /\ DirectIdle
    /\ AccessIdle
    /\ EditorIdle

Plan ==
    /\ mode = "plan"
    /\ ~planned
    /\ planned' = TRUE
    /\ layers' = getExecutionLayers(nodes, edges)
    /\ UNCHANGED <<seqVars, editorVars, accessVars, directVars, graphVars, histVars, runVars, coordVars, nodeVars>>

\* the sequential planner is applied to the same graph
PlanSequential ==
    /\ mode = "plan"
    /\ ~sorted.done
    /\ sorted' = [done |-> TRUE, order |-> getTopologicalOrder(nodes, edges)]
    /\ UNCHANGED <<editorVars, accessVars, directVars, graphVars, histVars, planVars, runVars,
                   coordVars, nodeVars>>

NextPlan == Plan \/ PlanSequential

SpecPlan == InitPlan /\ [][NextPlan]_vars

\* ------------------------------------------------------- orchestrator
MaxNodes == 3
MaxEdges == 2

PassiveTypes == {"textNode", "imageNode", "videoNode"}
ExecutorTypes == {"llmNode", "cropImageNode", "extractFrameNode"}
RunNodeTypes == {"imageNode", "llmNode", "cropImageNode", "stickyNode"}
TaskOutcomes == {"COMPLETED", "FAILED", "TIMED_OUT", "CANCELED"}
Terminal == {"COMPLETED", "FAILED"}

\* node.data as the editor stores it for a node of the given type
DataOf(type) ==
    CASE type = "textNode"  -> [NoData EXCEPT !.text = "Describe this"]
      [] type = "imageNode" -> [NoData EXCEPT !.url = "http://x/a.png"]
      [] type = "videoNode" -> [NoData EXCEPT !.url = "http://x/v.mp4"]
      [] OTHER              -> NoData

NoOutput == [text |-> Undefined, imageUrls |-> <<>>, videoUrl |-> Undefined]

ExecsOf(id) == IF id \in DOMAIN execs THEN execs[id] ELSE <<>>

CurrentLayer == IF layerIdx \in 1..Len(layers) THEN layers[layerIdx] ELSE <<>>

\* edges.filter((e) => e.target === node.id)
IncomingEdges(es, id) == SelectSeq(es, LAMBDA e : e.target = id)

\* variant of PassiveWrite in which only text nodes publish their value
PassiveWriteTextOnly(ctx, node) ==
    IF node.type = "textNode"
    THEN (node.id :> [NoOutput EXCEPT !.text = node.data.text]) @@ ctx
    ELSE ctx

\* passive branch of the layer loop: the context after one passive node
PassiveWrite(ctx, node) ==
    CASE node.type = "textNode" ->
            (node.id :> [NoOutput EXCEPT !.text = node.data.text]) @@ ctx
      [] node.type = "imageNode" /\ node.data.url # Undefined ->
            (node.id :> [NoOutput EXCEPT !.imageUrls = <<node.data.url>>]) @@ ctx
      [] node.type = "videoNode" /\ node.data.url # Undefined ->
            (node.id :> [NoOutput EXCEPT !.videoUrl = node.data.url]) @@ ctx
      [] OTHER -> ctx

\* for (const node of layer): context writes of the passive nodes, in layer order
RECURSIVE PassivePass(_, _)
PassivePass(ids, ctx) ==
    IF ids = <<>> THEN ctx
    ELSE PassivePass(Tail(ids), PassiveWrite(ctx, NodeOf(nodes, Head(ids))))

\* variant of ActiveOf without the passive branches and their continue
ActiveOfAll(ids) == Range(ids)

\* for (const node of layer): the nodes whose triggerFn is started
ActiveOf(ids) == {id \in Range(ids) : NodeOf(nodes, id).type \notin PassiveTypes}

\* cropImageNode: first incoming edge whose source has an image, else data.imageUrl
RECURSIVE FirstImage(_, _, _)
FirstImage(es, ctx, fallback) ==
    IF es = <<>> THEN fallback
    ELSE LET src == Head(es).source
         IN  IF src \in DOMAIN ctx /\ ctx[src].imageUrls # <<>>
             THEN ctx[src].imageUrls[1]
             ELSE FirstImage(Tail(es), ctx, fallback)

\* extractFrameNode: first incoming edge whose source has a video, else data.videoUrl
RECURSIVE FirstVideo(_, _, _)
FirstVideo(es, ctx, fallback) ==
    IF es = <<>> THEN fallback
    ELSE LET src == Head(es).source
         IN  IF src \in DOMAIN ctx /\ ctx[src].videoUrl # Undefined
             THEN ctx[src].videoUrl
             ELSE FirstVideo(Tail(es), ctx, fallback)

\* variant of ResolveStep that requests a unit of work whatever the inputs are
ResolveStepAlways(node, ctx) ==
    IF node.type \in ExecutorTypes THEN "trigger" ELSE "resolved"

\* body of triggerFn's try block up to the trigger call:
\* "trigger" (a unit of work is requested), "catch" (input missing), or
\* "resolved" (no branch matches the node type)
ResolveStep(node, ctx) ==
    CASE node.type = "llmNode" -> "trigger"
      [] node.type = "cropImageNode" ->
            IF FirstImage(IncomingEdges(edges, node.id), ctx, node.data.imageUrl) = Undefined
            THEN "catch" ELSE "trigger"
      [] node.type = "extractFrameNode" ->
            IF FirstVideo(IncomingEdges(edges, node.id), ctx, node.data.videoUrl) = Undefined
            THEN "catch" ELSE "trigger"
      [] OTHER -> "resolved"

\* JavaScript truthiness of an optional string
Falsy(v) == v \in {Undefined, ""}

NoAggregate == [text |-> <<>>, images |-> <<>>]

\* variant of AggregateEdge that appends every upstream text in edge order
AggregateEdgeAppend(edge, ctx, acc) ==
    LET known == edge.source \in DOMAIN ctx
        sourceData == ctx[edge.source]
    IN  [text |-> IF known /\ ~Falsy(sourceData.text)
                  THEN IF edge.targetHandle = "system-prompt"
                       THEN acc.text \o <<"[System Context]: ", sourceData.text, "\n\n">>
                       ELSE acc.text \o <<"\n[Context]: ", sourceData.text>>
                  ELSE acc.text,
         images |-> IF known THEN acc.images \o sourceData.imageUrls ELSE acc.images]

\* llmNode: body of for (const edge of incomingEdges); aggregatedText is the
\* sequence of the pieces concatenated into it, aggregatedImages the list of urls
AggregateEdge(edge, ctx, acc) ==
    LET known == edge.source \in DOMAIN ctx
        sourceData == ctx[edge.source]
    IN  [text |-> IF known /\ ~Falsy(sourceData.text)
                  THEN IF edge.targetHandle = "system-prompt"
                       THEN <<"[System Context]: ", sourceData.text, "\n\n">> \o acc.text
                       ELSE acc.text \o <<"\n[Context]: ", sourceData.text>>
                  ELSE acc.text,
         images |-> IF known THEN acc.images \o sourceData.imageUrls ELSE acc.images]

\* llmNode: for (const edge of incomingEdges)
RECURSIVE AggregateLlm(_, _, _)
AggregateLlm(es, ctx, acc) ==
    IF es = <<>> THEN acc
    ELSE AggregateLlm(Tail(es), ctx, AggregateEdge(Head(es), ctx, acc))

NoPayload == [taskType |-> Undefined, prompt |-> Undefined, systemPrompt |-> <<>>,
              imageUrls |-> <<>>, url |-> Undefined]

\* the argument of the trigger call of a node whose ResolveStep is "trigger"
TriggerPayload(node, ctx) ==
    CASE node.type = "llmNode" ->
            LET agg == AggregateLlm(IncomingEdges(edges, node.id), ctx, NoAggregate)
            IN  [NoPayload EXCEPT
                    !.taskType = "llm",
                    !.prompt = IF Falsy(node.data.prompt) THEN "Analyze this."
                               ELSE node.data.prompt,
                    !.systemPrompt = agg.text,
                    !.imageUrls = agg.images]
      [] node.type = "cropImageNode" ->
            [NoPayload EXCEPT
                !.taskType = "crop",
                !.url = FirstImage(IncomingEdges(edges, node.id), ctx, node.data.imageUrl)]
      [] node.type = "extractFrameNode" ->
            [NoPayload EXCEPT
                !.taskType = "extract",
                !.url = FirstVideo(IncomingEdges(edges, node.id), ctx, node.data.videoUrl)]

DispatchedOf(id) == IF id \in DOMAIN dispatched THEN dispatched[id] ELSE <<>>

\* the passive nodes of a layer whose branch assigns context[node.id]
PassiveWriters(ids) ==
    {id \in Range(ids) : PassiveWrite(<<>>, NodeOf(nodes, id)) # <<>>}

\* one more assignment to context[id] for every id of S
Bump(cnt, S) ==
    [id \in (DOMAIN cnt) \cup S |->
        (IF id \in DOMAIN cnt THEN cnt[id] ELSE 0) + (IF id \in S THEN 1 ELSE 0)]

TaskTypeOf(type) ==
    CASE type = "llmNode" -> "llm"
      [] type = "cropImageNode" -> "crop"
      [] type = "extractFrameNode" -> "extract"

\* context entry written for a completed task
OutputOf(taskType, id) ==
    IF taskType = "llm"
    THEN [NoOutput EXCEPT !.text = "generated"]
    ELSE [NoOutput EXCEPT !.imageUrls = <<"http://x/out.png">>]

NewExecution == [status |-> "RUNNING", error |-> Undefined, output |-> Undefined,
                 updates |-> 0]

\* prisma.nodeExecution.update on the record of this execution (the newest of the node)
UpdateExecution(ex, id, status, error, output) ==
    [ex EXCEPT ![id] = [@ EXCEPT ![Len(@)] =
        [status |-> status, error |-> error, output |-> output,
         updates |-> @.updates + 1]]]

\* the stored graphs a run is requested for
RunNodeLists ==
    UNION {{[i \in 1..n |-> NodeData(i, ty[i], DataOf(ty[i]))] : ty \in [1..n -> RunNodeTypes]}
           : n \in 1..MaxNodes}

EdgeRank(e) == (e.source - 1) * MaxNodes + e.target

RunEdgeLists(n) ==
    {es \in SeqsUpTo({EdgeData(s, t, Undefined) : s \in 1..n, t \in 1..n}, MaxEdges) :
        \A i \in 1..(Len(es) - 1) : EdgeRank(es[i]) < EdgeRank(es[i + 1])}

Init ==
    /\ nodes \in RunNodeLists
    /\ edges \in RunEdgeLists(Len(nodes))
    /\ mode = "run"
    /\ Idle
    /\ DirectIdle
    /\ AccessIdle
    /\ EditorIdle

\* runWorkflowAction: create the PENDING record, then trigger the orchestrator
RunWorkflowAction ==
    /\ mode = "run"
    /\ runStatus = "none"
    /\ runStatus' = "PENDING"
    /\ statusLog' = Append(statusLog, "PENDING")
    /\ queued' = queued + 1
    /\ UNCHANGED <<seqVars, editorVars, accessVars, directVars, graphVars, histVars, planVars, deliveries, coordVars, nodeVars>>

\* orchestrator.run up to the RUNNING update (load, plan, fresh context)
OrchestratorStart ==
    /\ queued > 0
    /\ phase \in {"idle", "done", "thrown"}
    /\ runStatus # "none"
    /\ queued' = queued - 1
    /\ deliveries' = deliveries + 1
    /\ layers' = getExecutionLayers(nodes, edges)
    /\ planned' = TRUE
    /\ context' = <<>>
    /\ tf' = <<>>
    /\ task' = <<>>
    /\ runStatus' = "RUNNING"
    /\ statusLog' = Append(statusLog, "RUNNING")
    /\ phase' = "layer"
    /\ layerIdx' = 1
    /\ pendingTasks' = <<>>
    /\ pollIdx' = 0
    /\ ctxWrites' = <<>>
    /\ dispatched' = <<>>
    /\ dbErrors' = {}
    /\ UNCHANGED <<seqVars, editorVars, accessVars, directVars, graphVars, execs>>

\* for (const node of layer): passive nodes write the context, every other node's
\* triggerFn is called and runs up to its first await (nodeExecution.create)
BeginLayer ==
    /\ phase = "layer"
    /\ layerIdx <= Len(layers)
    /\ context' = PassivePass(CurrentLayer, context)
    /\ ctxWrites' = Bump(ctxWrites, PassiveWriters(CurrentLayer))
    /\ tf' = [id \in ActiveOf(CurrentLayer) |-> "create"] @@ tf
    /\ pendingTasks' = <<>>
    /\ phase' = "trigger"
    /\ UNCHANGED <<seqVars, editorVars, accessVars, directVars, graphVars, planVars, runVars, layerIdx, pollIdx, execs, task,
                   dispatched, dbErrors>>

\* triggerFn: the RUNNING record is created, then the inputs are resolved and,
\* when they resolve, the trigger call is made with the payload built from them
TriggerFnCreate(id) ==
    /\ id \in DOMAIN tf
    /\ tf[id] = "create"
    /\ execs' = (id :> Append(ExecsOf(id), NewExecution)) @@ execs
    /\ LET node == NodeOf(nodes, id)
           step == ResolveStep(node, context)
       IN  /\ tf' = [tf EXCEPT ![id] = step]
           /\ dispatched' =
                IF step = "trigger"
                THEN (id :> Append(DispatchedOf(id), TriggerPayload(node, context)))
                     @@ dispatched
                ELSE dispatched
    /\ UNCHANGED <<seqVars, editorVars, accessVars, directVars, graphVars, planVars, runVars, coordVars, context, task, ctxWrites,
                   dbErrors>>

\* variant of TriggerSettle that issues the trigger call again when it has thrown
TriggerSettleRetry(id) ==
    /\ id \in DOMAIN tf
    /\ tf[id] = "trigger"
    /\ \E ok \in BOOLEAN :
        IF ok
        THEN /\ task' = (id :> "EXECUTING") @@ task
             /\ pendingTasks' = Append(pendingTasks,
                    [node |-> id, taskType |-> TaskTypeOf(NodeOf(nodes, id).type)])
             /\ tf' = [tf EXCEPT ![id] = "resolved"]
             /\ UNCHANGED dispatched
        ELSE /\ Len(dispatched[id]) < 2
             /\ dispatched' = [dispatched EXCEPT ![id] = Append(@, Last(@))]
             /\ UNCHANGED <<task, pendingTasks, tf>>
    /\ UNCHANGED <<seqVars, editorVars, accessVars, directVars, graphVars, planVars, runVars, phase, layerIdx, pollIdx, context, execs,
                   ctxWrites, dbErrors>>

\* triggerFn: the trigger call returns a handle (pendingTasks.push) or throws
TriggerSettle(id) ==
    /\ id \in DOMAIN tf
    /\ tf[id] = "trigger"
    /\ \E ok \in BOOLEAN :
        IF ok
        THEN /\ task' = (id :> "EXECUTING") @@ task
             /\ pendingTasks' = Append(pendingTasks,
                    [node |-> id, taskType |-> TaskTypeOf(NodeOf(nodes, id).type)])
             /\ tf' = [tf EXCEPT ![id] = "resolved"]
        ELSE /\ tf' = [tf EXCEPT ![id] = "catch"]
             /\ UNCHANGED <<task, pendingTasks>>
    /\ UNCHANGED <<seqVars, editorVars, accessVars, directVars, graphVars, histVars, planVars, runVars, phase, layerIdx, pollIdx, context, execs>>

\* triggerFn catch block: the record is updated to FAILED, the error is rethrown
TriggerFnCatch(id) ==
    /\ id \in DOMAIN tf
    /\ tf[id] = "catch"
    /\ execs' = UpdateExecution(execs, id, "FAILED", "error", Undefined)
    /\ tf' = [tf EXCEPT ![id] = "rejected"]
    /\ UNCHANGED <<seqVars, editorVars, accessVars, directVars, graphVars, histVars, planVars, runVars, coordVars, context, task>>

\* the external executor finishes a unit of work
TaskSettle(id) ==
    /\ id \in DOMAIN task
    /\ task[id] = "EXECUTING"
    /\ \E outcome \in TaskOutcomes : task' = [task EXCEPT ![id] = outcome]
    /\ UNCHANGED <<seqVars, editorVars, accessVars, directVars, graphVars, histVars, planVars, runVars, coordVars, context, execs, tf>>

\* variant of PromiseAllResolve that goes on after the first triggerFn has returned
PromiseAnyResolve ==
    /\ phase = "trigger"
    /\ \E id \in ActiveOf(CurrentLayer) : tf[id] = "resolved"
    /\ phase' = "poll1"
    /\ pollIdx' = 1
    /\ UNCHANGED <<seqVars, editorVars, accessVars, directVars, graphVars, histVars, planVars, runVars, layerIdx, pendingTasks, nodeVars>>

\* await Promise.all(triggerPromises): every triggerFn of the layer has returned
PromiseAllResolve ==
    /\ phase = "trigger"
    /\ \A id \in ActiveOf(CurrentLayer) : tf[id] = "resolved"
    /\ phase' = "poll1"
    /\ pollIdx' = 1
    /\ UNCHANGED <<seqVars, editorVars, accessVars, directVars, graphVars, histVars, planVars, runVars, layerIdx, pendingTasks, nodeVars>>

\* await Promise.all(triggerPromises): rejects as soon as one triggerFn has thrown
PromiseAllReject ==
    /\ phase = "trigger"
    /\ \E id \in ActiveOf(CurrentLayer) : tf[id] = "rejected"
    /\ phase' = "catch"
    /\ UNCHANGED <<seqVars, editorVars, accessVars, directVars, graphVars, histVars, planVars, runVars, layerIdx, pendingTasks, pollIdx, nodeVars>>

\* first polling loop: wait for each handle in turn, result and errors ignored
Poll1 ==
    /\ phase = "poll1"
    /\ IF pollIdx <= Len(pendingTasks)
       THEN /\ task[pendingTasks[pollIdx].node] # "EXECUTING"
            /\ pollIdx' = pollIdx + 1
            /\ phase' = phase
       ELSE /\ phase' = "poll2"
            /\ pollIdx' = 1
    /\ UNCHANGED <<seqVars, editorVars, accessVars, directVars, graphVars, histVars, planVars, runVars, layerIdx, pendingTasks, nodeVars>>

\* second polling loop, result COMPLETED: context write and SUCCESS update
Poll2Completed ==
    /\ phase = "poll2"
    /\ pollIdx <= Len(pendingTasks)
    /\ LET t == pendingTasks[pollIdx] IN
        /\ task[t.node] = "COMPLETED"
        /\ context' = (t.node :> OutputOf(t.taskType, t.node)) @@ context
        /\ ctxWrites' = Bump(ctxWrites, {t.node})
        /\ execs' = UpdateExecution(execs, t.node, "SUCCESS", Undefined, "output")
    /\ pollIdx' = pollIdx + 1
    /\ UNCHANGED <<seqVars, editorVars, accessVars, directVars, graphVars, planVars, runVars, phase, layerIdx, pendingTasks, tf, task,
                   dispatched, dbErrors>>

\* variant of Poll2Failed that records the failure and goes on with the loop
Poll2FailedSwallow ==
    /\ phase = "poll2"
    /\ pollIdx <= Len(pendingTasks)
    /\ LET t == pendingTasks[pollIdx] IN
        /\ task[t.node] \notin {"EXECUTING", "COMPLETED"}
        /\ execs' = UpdateExecution(execs, t.node, "FAILED", "error", Undefined)
    /\ pollIdx' = pollIdx + 1
    /\ UNCHANGED <<seqVars, editorVars, accessVars, directVars, graphVars, histVars, planVars, runVars, phase, layerIdx, pendingTasks,
                   context, tf, task>>

\* second polling loop, any other result: FAILED update, the error is rethrown
Poll2Failed ==
    /\ phase = "poll2"
    /\ pollIdx <= Len(pendingTasks)
    /\ LET t == pendingTasks[pollIdx] IN
        /\ task[t.node] \notin {"EXECUTING", "COMPLETED"}
        /\ execs' = UpdateExecution(execs, t.node, "FAILED", "error", Undefined)
    /\ phase' = "catch"
    /\ UNCHANGED <<seqVars, editorVars, accessVars, directVars, graphVars, histVars, planVars, runVars, layerIdx, pendingTasks, pollIdx,
                   context, tf, task>>

\* variant of EndLayer that leaves the layer without waiting for the polling loops
EndLayerEarly ==
    /\ phase \in {"poll1", "poll2"}
    /\ phase' = "layer"
    /\ layerIdx' = layerIdx + 1
    /\ UNCHANGED <<seqVars, editorVars, accessVars, directVars, graphVars, histVars, planVars, runVars, pendingTasks, pollIdx, nodeVars>>

\* end of the layer's loop body: on to the next layer
EndLayer ==
    /\ phase = "poll2"
    /\ pollIdx > Len(pendingTasks)
    /\ phase' = "layer"
    /\ layerIdx' = layerIdx + 1
    /\ UNCHANGED <<seqVars, editorVars, accessVars, directVars, graphVars, histVars, planVars, runVars, pendingTasks, pollIdx, nodeVars>>

\* 6. Complete Run
CompleteRun ==
    /\ phase = "layer"
    /\ layerIdx > Len(layers)
    /\ runStatus' = "COMPLETED"
    /\ statusLog' = Append(statusLog, "COMPLETED")
    /\ phase' = "done"
    /\ UNCHANGED <<seqVars, editorVars, accessVars, directVars, graphVars, histVars, planVars, queued, deliveries, layerIdx, pendingTasks,
                   pollIdx, nodeVars>>

\* variant of OuterCatch that rethrows without the workflowRun.update
OuterCatchRethrow ==
    /\ phase = "catch"
    /\ phase' = "thrown"
    /\ UNCHANGED <<seqVars, editorVars, accessVars, directVars, graphVars, histVars, planVars, runVars, layerIdx,
                   pendingTasks, pollIdx, nodeVars>>

\* outer catch: the run is updated to FAILED, the error is rethrown
OuterCatch ==
    /\ phase = "catch"
    /\ runStatus' = "FAILED"
    /\ statusLog' = Append(statusLog, "FAILED")
    /\ phase' = "thrown"
    /\ UNCHANGED <<seqVars, editorVars, accessVars, directVars, graphVars, histVars, planVars, queued, deliveries, layerIdx, pendingTasks,
                   pollIdx, nodeVars>>

Next ==
    \/ RunWorkflowAction
    \/ OrchestratorStart
    \/ BeginLayer
    \/ \E id \in 1..MaxNodes : TriggerFnCreate(id)
    \/ \E id \in 1..MaxNodes : TriggerSettle(id)
    \/ \E id \in 1..MaxNodes : TriggerFnCatch(id)
    \/ \E id \in 1..MaxNodes : TaskSettle(id)
    \/ PromiseAllResolve
    \/ PromiseAllReject
    \/ Poll1
    \/ Poll2Completed
    \/ Poll2Failed
    \/ EndLayer
    \/ CompleteRun
    \/ OuterCatch

Spec == Init /\ [][Next]_vars

\* every awaited step ends: a database write returns, a trigger call returns or
\* throws, a unit of work settles, and the continuation that waits for it runs
\* (the steps of an execution that has started)
Progress ==
    \/ BeginLayer
    \/ \E id \in 1..MaxNodes : TriggerFnCreate(id)
    \/ \E id \in 1..MaxNodes : TriggerSettle(id)
    \/ \E id \in 1..MaxNodes : TriggerFnCatch(id)
    \/ \E id \in 1..MaxNodes : TaskSettle(id)
    \/ PromiseAllResolve
    \/ PromiseAllReject
    \/ Poll1
    \/ Poll2Completed
    \/ Poll2Failed
    \/ EndLayer
    \/ CompleteRun
    \/ OuterCatch

SpecFair == Spec /\ WF_vars(Progress)

\* ------------------------------------------------- at-least-once delivery
MaxDeliveries == 2

\* the task platform delivers the same {runId} to the entry point again, after
\* the previous execution has returned or thrown and its triggerFns have ended
Redeliver ==
    /\ mode = "run"
    /\ phase \in {"done", "thrown"}
    /\ queued = 0
    /\ deliveries < MaxDeliveries
    /\ \A id \in DOMAIN tf : tf[id] \in {"resolved", "rejected"}
    /\ queued' = queued + 1
    /\ UNCHANGED <<seqVars, editorVars, accessVars, directVars, graphVars, histVars, planVars, runStatus, statusLog, deliveries, coordVars,
                   nodeVars>>

NextAtLeastOnce ==
    \/ Next
    \/ Redeliver

SpecAtLeastOnce == Init /\ [][NextAtLeastOnce]_vars

\* ------------------------------------------------- persistence failures
\* a prisma write that threw, and the layer the loop was at
DbError(write) == [write |-> write, layer |-> layerIdx]

\* orchestrator.run: the RUNNING update throws, outside the try block
StartUpdateFails ==
    /\ queued > 0
    /\ phase \in {"idle", "done", "thrown"}
    /\ runStatus # "none"
    /\ queued' = queued - 1
    /\ deliveries' = deliveries + 1
    /\ layers' = getExecutionLayers(nodes, edges)
    /\ planned' = TRUE
    /\ context' = <<>>
    /\ tf' = <<>>
    /\ task' = <<>>
    /\ phase' = "thrown"
    /\ layerIdx' = 0
    /\ pendingTasks' = <<>>
    /\ pollIdx' = 0
    /\ ctxWrites' = <<>>
    /\ dispatched' = <<>>
    /\ dbErrors' = {[write |-> "run.RUNNING", layer |-> 0]}
    /\ UNCHANGED <<seqVars, editorVars, accessVars, directVars, graphVars, runStatus, statusLog, execs>>

\* triggerFn: nodeExecution.create throws, before the try block is entered
CreateFails(id) ==
    /\ id \in DOMAIN tf
    /\ tf[id] = "create"
    /\ tf' = [tf EXCEPT ![id] = "rejected"]
    /\ dbErrors' = dbErrors \cup {DbError("node.create")}
    /\ UNCHANGED <<seqVars, editorVars, accessVars, directVars, graphVars, planVars, runVars, coordVars, context, execs,
                   task, ctxWrites, dispatched>>

\* triggerFn catch block: the FAILED update throws
TriggerFnCatchFails(id) ==
    /\ id \in DOMAIN tf
    /\ tf[id] = "catch"
    /\ tf' = [tf EXCEPT ![id] = "rejected"]
    /\ dbErrors' = dbErrors \cup {DbError("node.FAILED")}
    /\ UNCHANGED <<seqVars, editorVars, accessVars, directVars, graphVars, planVars, runVars, coordVars, context, execs,
                   task, ctxWrites, dispatched>>

\* variant of Poll2CompletedFails that logs the failed SUCCESS update and goes on
Poll2CompletedFailsSwallow ==
    /\ phase = "poll2"
    /\ pollIdx <= Len(pendingTasks)
    /\ LET t == pendingTasks[pollIdx] IN
        /\ task[t.node] = "COMPLETED"
        /\ context' = (t.node :> OutputOf(t.taskType, t.node)) @@ context
        /\ ctxWrites' = Bump(ctxWrites, {t.node})
    /\ dbErrors' = dbErrors \cup {DbError("node.SUCCESS")}
    /\ pollIdx' = pollIdx + 1
    /\ UNCHANGED <<seqVars, editorVars, accessVars, directVars, graphVars, planVars, runVars, phase, layerIdx, pendingTasks,
                   execs, tf, task, dispatched>>

\* second polling loop, result COMPLETED: the context is written, the SUCCESS
\* update throws, the catch block's FAILED update goes through or throws too
Poll2CompletedFails ==
    /\ phase = "poll2"
    /\ pollIdx <= Len(pendingTasks)
    /\ LET t == pendingTasks[pollIdx] IN
        /\ task[t.node] = "COMPLETED"
        /\ context' = (t.node :> OutputOf(t.taskType, t.node)) @@ context
        /\ ctxWrites' = Bump(ctxWrites, {t.node})
        /\ \E again \in BOOLEAN :
            IF again
            THEN /\ execs' = execs
                 /\ dbErrors' = dbErrors \cup {DbError("node.SUCCESS"), DbError("node.FAILED")}
            ELSE /\ execs' = UpdateExecution(execs, t.node, "FAILED", "error", Undefined)
                 /\ dbErrors' = dbErrors \cup {DbError("node.SUCCESS")}
    /\ phase' = "catch"
    /\ UNCHANGED <<seqVars, editorVars, accessVars, directVars, graphVars, planVars, runVars, layerIdx, pendingTasks, pollIdx,
                   tf, task, dispatched>>

\* second polling loop, any other result: the catch block's FAILED update throws
Poll2FailedFails ==
    /\ phase = "poll2"
    /\ pollIdx <= Len(pendingTasks)
    /\ task[pendingTasks[pollIdx].node] \notin {"EXECUTING", "COMPLETED"}
    /\ dbErrors' = dbErrors \cup {DbError("node.FAILED")}
    /\ phase' = "catch"
    /\ UNCHANGED <<seqVars, editorVars, accessVars, directVars, graphVars, planVars, runVars, layerIdx, pendingTasks, pollIdx,
                   nodeVars, ctxWrites, dispatched>>

\* 6. Complete Run: the COMPLETED update throws inside the try block
CompleteRunFails ==
    /\ phase = "layer"
    /\ layerIdx > Len(layers)
    /\ dbErrors' = dbErrors \cup {DbError("run.COMPLETED")}
    /\ phase' = "catch"
    /\ UNCHANGED <<seqVars, editorVars, accessVars, directVars, graphVars, planVars, runVars, layerIdx, pendingTasks, pollIdx,
                   nodeVars, ctxWrites, dispatched>>

\* outer catch: the FAILED update throws, that error leaves orchestrator.run
OuterCatchFails ==
    /\ phase = "catch"
    /\ dbErrors' = dbErrors \cup {DbError("run.FAILED")}
    /\ phase' = "thrown"
    /\ UNCHANGED <<seqVars, editorVars, accessVars, directVars, graphVars, planVars, runVars, layerIdx, pendingTasks, pollIdx,
                   nodeVars, ctxWrites, dispatched>>

NextDb ==
    \/ Next
    \/ StartUpdateFails
    \/ \E id \in 1..MaxNodes : CreateFails(id)
    \/ \E id \in 1..MaxNodes : TriggerFnCatchFails(id)
    \/ Poll2CompletedFails
    \/ Poll2FailedFails
    \/ CompleteRunFails
    \/ OuterCatchFails

SpecDb == Init /\ [][NextDb]_vars

\* ------------------------------------------------------ direct LLM route
MaxRetries == 3
BackoffBase == 1000
BackoffCap == 5000

MaxPromptLen == 2
MaxSystemLen == 1
MaxImages == 1
MaxMarkers == 2

Chars == {" ", "a"}

\* variant of Trim that leaves the string as it is
TrimNone(s) == s

\* String.prototype.trim on a string given as its sequence of characters
Trim(s) ==
    LET ks == {i \in 1..Len(s) : s[i] # " "}
    IN  IF ks = {} THEN <<>> ELSE SubSeq(s, Min(ks), Max(ks))

\* bodies posted to the route: unparsable, rejected by ExecuteRequestSchema, or
\* schema-valid with prompt, optional systemPrompt (<<>>: absent) and imageUrls
Requests ==
    {[NoRequest EXCEPT !.body = b] : b \in {"malformed", "invalid"}}
    \cup {[body |-> "valid", prompt |-> p, systemPrompt |-> sp, imageUrls |-> im] :
            p \in SeqsUpTo(Chars, MaxPromptLen),
            sp \in {<<>>} \cup {<<x>> : x \in SeqsUpTo(Chars, MaxSystemLen)},
            im \in SeqsUpTo({"data:image/png;base64,AAAA"}, MaxImages)}

HasPrompt(r) == r.prompt # <<>> /\ Len(Trim(r.prompt)) > 0

HasSystemPrompt(r) ==
    /\ r.systemPrompt # <<>>
    /\ r.systemPrompt[1] # <<>>
    /\ Len(Trim(r.systemPrompt[1])) > 0

HasImages(r) == Len(r.imageUrls) > 0

\* the substrings the route looks for in error messages (String.includes is
\* case-sensitive); a message is its text and the set of those it contains
Markers == {"503", "overloaded", "429", "rate limit", "quota", "invalid", "API key"}

Message(text, marks) == [text |-> text, marks |-> marks]

Includes(msg, marker) == marker \in msg.marks

NoMessage == Message(Undefined, {})

NoOutcome == [kind |-> "none", marks |-> {}]

\* what geminiModel.generateContent can do: return a response, throw an Error
\* whose message contains some of the markers, or throw a value that is no Error
SdkOutcomes ==
    {[kind |-> k, marks |-> {}] : k \in {"success", "nonError"}}
    \cup {[kind |-> "error", marks |-> ms] :
            ms \in {m \in SUBSET Markers : Cardinality(m) <= MaxMarkers}}

\* catch block of executeGemini: the message put into the failure result
MapError(out) ==
    IF out.kind = "nonError"
    THEN Message("Unknown error occurred during generation", {})
    ELSE IF "503" \in out.marks \/ "overloaded" \in out.marks
    THEN Message("The AI model is currently overloaded. Please try again in a few moments.",
                 {"overloaded"})
    ELSE IF "429" \in out.marks \/ "rate limit" \in out.marks
    THEN Message("Rate limit exceeded. Please wait before trying again.", {})
    ELSE IF "quota" \in out.marks
    THEN Message("API quota exceeded. Please check your Gemini API quota.", {"quota"})
    ELSE IF "invalid" \in out.marks \/ "API key" \in out.marks
    THEN Message("Invalid API key. Please check your Gemini API configuration.",
                 {"API key"})
    ELSE Message("error.message", out.marks)

\* value returned by executeGemini for an outcome of the generation call
ExecuteGeminiResult(out) ==
    IF out.kind = "success"
    THEN [success |-> TRUE, error |-> NoMessage]
    ELSE [success |-> FALSE, error |-> MapError(out)]

\* variant of IsTransient that takes every failure for a transient one
IsTransientAlways(lastError) == TRUE

\* the retry condition on lastError
IsTransient(lastError) ==
    \/ Includes(lastError, "overloaded")
    \/ Includes(lastError, "503")
    \/ Includes(lastError, "rate limit")
    \/ Includes(lastError, "429")

\* variant of ShouldRetry that goes on with the loop after a successful attempt
ShouldRetryAfterSuccess(res, n) == n < MaxRetries

\* the loop body after executeGemini has returned: wait and continue, or return
ShouldRetry(res, n) == ~res.success /\ IsTransient(res.error) /\ n < MaxRetries

\* Math.min(1000 * Math.pow(2, attempt - 1), 5000)
\* variant of WaitTime without the Math.min cap
WaitTimeUncapped(n) == BackoffBase * 2^(n - 1)

WaitTime(n) == Min({BackoffBase * 2^(n - 1), BackoffCap})

\* status code of the response to a failed execution
StatusCode(res) ==
    IF Includes(res.error, "overloaded") \/ Includes(res.error, "503") THEN 503
    ELSE IF Includes(res.error, "rate limit") \/ Includes(res.error, "429") THEN 429
    ELSE 500

InitDirect ==
    /\ nodes = <<>>
    /\ edges = <<>>
    /\ mode = "direct"
    /\ Idle
    /\ AccessIdle
    /\ EditorIdle
    /\ request \in Requests
    /\ dpc = "idle"
    /\ attempt = 0
    /\ calls = 0
    /\ waits = <<>>
    /\ thrown = NoOutcome
    /\ result = NoResult
    /\ httpStatus = 0

orchVars == <<graphVars, planVars, runVars, coordVars, nodeVars, histVars>>

\* POST up to the call of executeGeminiWithRetry: parse, schema, input check
PostReceive ==
    /\ dpc = "idle"
    /\ IF request.body = "malformed"
       THEN httpStatus' = 500 /\ dpc' = "responded" /\ attempt' = attempt
       ELSE IF request.body = "invalid"
       THEN httpStatus' = 400 /\ dpc' = "responded" /\ attempt' = attempt
       ELSE IF ~HasPrompt(request) /\ ~HasSystemPrompt(request) /\ ~HasImages(request)
       THEN httpStatus' = 400 /\ dpc' = "responded" /\ attempt' = attempt
       ELSE httpStatus' = httpStatus /\ dpc' = "attempt" /\ attempt' = 1
    /\ UNCHANGED <<seqVars, editorVars, accessVars, orchVars, request, calls, waits, thrown, result>>

\* executeGeminiWithRetry: the loop body calls executeGemini
CallExecuteGemini ==
    /\ dpc = "attempt"
    /\ attempt <= MaxRetries
    /\ calls' = calls + 1
    /\ dpc' = "generating"
    /\ UNCHANGED <<seqVars, editorVars, accessVars, orchVars, request, attempt, waits, thrown, result, httpStatus>>

\* executeGemini returns; the loop body either starts the backoff wait or returns
ExecuteGeminiReturn ==
    /\ dpc = "generating"
    /\ \E out \in SdkOutcomes :
        LET res == ExecuteGeminiResult(out)
        IN  /\ thrown' = out
            /\ result' = res
            /\ IF ShouldRetry(res, attempt)
               THEN waits' = Append(waits, WaitTime(attempt)) /\ dpc' = "wait"
               ELSE waits' = waits /\ dpc' = "returned"
    /\ UNCHANGED <<seqVars, editorVars, accessVars, orchVars, request, attempt, calls, httpStatus>>

\* the backoff timer fires: continue with attempt++ and the loop condition
BackoffElapsed ==
    /\ dpc = "wait"
    /\ attempt' = attempt + 1
    /\ IF attempt + 1 <= MaxRetries
       THEN dpc' = "attempt" /\ result' = result
       ELSE /\ dpc' = "returned"
            /\ result' = [success |-> FALSE,
                          error |-> Message("Failed after attempts", result.error.marks)]
    /\ UNCHANGED <<seqVars, editorVars, accessVars, orchVars, request, calls, waits, thrown, httpStatus>>

\* POST after executeGeminiWithRetry has returned: the response
PostRespond ==
    /\ dpc = "returned"
    /\ httpStatus' = IF result.success THEN 200 ELSE StatusCode(result)
    /\ dpc' = "responded"
    /\ UNCHANGED <<seqVars, editorVars, accessVars, orchVars, request, attempt, calls, waits, thrown, result>>

NextDirect ==
    \/ PostReceive
    \/ CallExecuteGemini
    \/ ExecuteGeminiReturn
    \/ BackoffElapsed
    \/ PostRespond

SpecDirect == InitDirect /\ [][NextDirect]_vars

\* every awaited step of the handler (the generation call, the timer) ends
SpecDirectFair == SpecDirect /\ WF_vars(NextDirect)

\* ------------------------------------------------------- server actions
MaxWorkflows == 2
MaxRuns == 2

Users == {"alice", "bob"}

\* auth(): the userId of the session, or none
Callers == Users \cup {Undefined}

\* workflow ids are positive; 0 stands for an argument parseInt does not read
\* as a number (or an empty id)
WorkflowIdArgs == 0..MaxWorkflows

\* a Workflow row that has not been deleted
Exists(w) == w \in 1..Len(workflows) /\ ~workflows[w].deleted

\* where: { id, userId }
Owned(u, w) == Exists(w) /\ workflows[w].userId = u

Reply(action, u, w, success, runs, runId) ==
    [action |-> action, userId |-> u, workflowId |-> w, success |-> success,
     runs |-> runs, runId |-> runId]

\* findMany({ where: { workflowId }, orderBy: { startedAt: "desc" } }): run ids
RECURSIVE RunsOfWorkflow(_, _)
RunsOfWorkflow(w, n) ==
    IF n = 0 THEN <<>>
    ELSE IF wfRuns[n].workflowId = w THEN <<n>> \o RunsOfWorkflow(w, n - 1)
    ELSE RunsOfWorkflow(w, n - 1)

InitAccess ==
    /\ nodes = <<>>
    /\ edges = <<>>
    /\ mode = "access"
    /\ Idle
    /\ DirectIdle
    /\ workflows = <<>>
    /\ wfRuns = <<>>
    /\ triggered = <<>>
    /\ call = NoCall
    /\ reply = NoReply
    /\ EditorIdle

otherVars == <<orchVars, directVars, editorVars, seqVars>>

\* saveWorkflowAction: create when no id is given, else update where {id, userId}
SaveWorkflowAction(u, w) ==
    /\ mode = "access" /\ call = NoCall
    /\ IF u = Undefined
       THEN reply' = Reply("save", u, w, FALSE, <<>>, 0) /\ workflows' = workflows
       ELSE IF w = 0
       THEN /\ Len(workflows) < MaxWorkflows
            /\ workflows' = Append(workflows, [userId |-> u, deleted |-> FALSE])
            /\ reply' = Reply("save", u, Len(workflows) + 1, TRUE, <<>>, 0)
       ELSE IF Owned(u, w)
       THEN /\ workflows' = workflows
            /\ reply' = Reply("save", u, w, TRUE, <<>>, 0)
       ELSE reply' = Reply("save", u, w, FALSE, <<>>, 0) /\ workflows' = workflows
    /\ UNCHANGED <<otherVars, wfRuns, triggered, call>>

\* loadWorkflowAction: findUnique where {id, userId}
LoadWorkflowAction(u, w) ==
    /\ mode = "access" /\ call = NoCall
    /\ reply' = Reply("load", u, w, u # Undefined /\ Owned(u, w), <<>>, 0)
    /\ UNCHANGED <<otherVars, workflows, wfRuns, triggered, call>>

\* deleteWorkflowAction: delete where {id, userId}
DeleteWorkflowAction(u, w) ==
    /\ mode = "access" /\ call = NoCall
    /\ IF u # Undefined /\ Owned(u, w)
       THEN /\ workflows' = [workflows EXCEPT ![w].deleted = TRUE]
            /\ reply' = Reply("delete", u, w, TRUE, <<>>, 0)
       ELSE reply' = Reply("delete", u, w, FALSE, <<>>, 0) /\ workflows' = workflows
    /\ UNCHANGED <<otherVars, wfRuns, triggered, call>>

\* getWorkflowHistoryAction: findMany where {workflowId}
GetWorkflowHistoryAction(u, w) ==
    /\ mode = "access" /\ call = NoCall
    /\ IF u = Undefined \/ w = 0
       THEN reply' = Reply("history", u, w, FALSE, <<>>, 0)
       ELSE reply' = Reply("history", u, w, TRUE, RunsOfWorkflow(w, Len(wfRuns)), 0)
    /\ UNCHANGED <<otherVars, workflows, wfRuns, triggered, call>>

\* variant of RunWorkflowCreate that triggers the orchestrator with the id the
\* run will get and leaves the creation of the record for later
RunWorkflowCreateLate(u, w) ==
    /\ mode = "access" /\ call = NoCall
    /\ u # Undefined /\ w # 0 /\ Exists(w)
    /\ Len(wfRuns) < MaxRuns
    /\ Len(triggered) < MaxRuns
    /\ triggered' = Append(triggered, Len(wfRuns) + 1)
    /\ UNCHANGED <<otherVars, workflows, wfRuns, call, reply>>

\* runWorkflowAction up to its second await: auth, parseInt, workflowRun.create
RunWorkflowCreate(u, w) ==
    /\ mode = "access" /\ call = NoCall
    /\ IF u = Undefined \/ w = 0 \/ ~Exists(w)
       THEN /\ reply' = Reply("run", u, w, FALSE, <<>>, 0)
            /\ UNCHANGED <<wfRuns, call>>
       ELSE /\ Len(wfRuns) < MaxRuns
            /\ wfRuns' = Append(wfRuns, [workflowId |-> w, status |-> "PENDING",
                                         triggerType |-> "MANUAL"])
            /\ call' = [action |-> "run", userId |-> u, workflowId |-> w,
                        runId |-> Len(wfRuns) + 1]
            /\ reply' = reply
    /\ UNCHANGED <<otherVars, workflows, triggered>>

\* runWorkflowAction: tasks.trigger resolves or throws, then the return
RunWorkflowTrigger ==
    /\ call.action = "run"
    /\ \E ok \in BOOLEAN :
        IF ok
        THEN /\ triggered' = Append(triggered, call.runId)
             /\ reply' = Reply("run", call.userId, call.workflowId, TRUE, <<>>, call.runId)
        ELSE /\ triggered' = triggered
             /\ reply' = Reply("run", call.userId, call.workflowId, FALSE, <<>>, 0)
    /\ call' = NoCall
    /\ UNCHANGED <<otherVars, workflows, wfRuns>>

\* nodeType arguments of executeNodeAction: the three the switch knows, and others
NodeTypeArgs == ExecutorTypes \cup {"textNode", "stickyNode"}

\* the single-node run with another entry in the status history of its NodeExecution
LogNode(runId, st) == [wfRuns EXCEPT ![runId].nodeLog = Append(@, st)]

\* the action in progress at its next await
AtStep(step) == [call EXCEPT !.step = step]

\* executeNodeAction up to its second write: auth, workflowId, workflowRun.create RUNNING
ExecuteNodeCreate(u, w) ==
    /\ mode = "access" /\ call = NoCall
    /\ IF u = Undefined \/ w = 0 \/ ~Exists(w)
       THEN /\ reply' = Reply("executeNode", u, w, FALSE, <<>>, 0)
            /\ UNCHANGED <<wfRuns, call>>
       ELSE /\ Len(wfRuns) < MaxRuns
            /\ wfRuns' = Append(wfRuns, [workflowId |-> w, status |-> "RUNNING",
                                         triggerType |-> "SINGLE_NODE", nodeLog |-> <<>>])
            /\ call' = [action |-> "executeNode", userId |-> u, workflowId |-> w,
                        runId |-> Len(wfRuns) + 1, step |-> "record"]
            /\ reply' = reply
    /\ UNCHANGED <<otherVars, workflows, triggered>>

\* outer catch of executeNodeAction: "Failed to execute node."
ExecuteNodeOuterCatch ==
    /\ reply' = Reply("executeNode", call.userId, call.workflowId, FALSE, <<>>, call.runId)
    /\ call' = NoCall

\* nodeExecution.create RUNNING, then the switch on nodeType: an unknown type
\* throws before the inner try
ExecuteNodeRecord(nodeType) ==
    /\ call.action = "executeNode" /\ call.step = "record"
    /\ wfRuns' = LogNode(call.runId, "RUNNING")
    /\ IF nodeType \notin ExecutorTypes
       THEN ExecuteNodeOuterCatch
       ELSE call' = AtStep("task") /\ reply' = reply
    /\ UNCHANGED <<otherVars, workflows, triggered>>

\* tasks.trigger and runs.poll: an output that counts as success, or a throw
\* (trigger error, failure output) into the inner catch
ExecuteNodeTask ==
    /\ call.action = "executeNode" /\ call.step = "task"
    /\ \E success \in BOOLEAN :
        call' = AtStep(IF success THEN "nodeSuccess" ELSE "nodeFailed")
    /\ UNCHANGED <<otherVars, workflows, wfRuns, triggered, reply>>

\* nodeExecution.update SUCCESS
ExecuteNodeSuccess ==
    /\ call.action = "executeNode" /\ call.step = "nodeSuccess"
    /\ wfRuns' = LogNode(call.runId, "SUCCESS")
    /\ call' = AtStep("runCompleted")
    /\ UNCHANGED <<otherVars, workflows, triggered, reply>>

\* workflowRun.update COMPLETED and the success return
ExecuteNodeCompleted ==
    /\ call.action = "executeNode" /\ call.step = "runCompleted"
    /\ wfRuns' = [wfRuns EXCEPT ![call.runId].status = "COMPLETED"]
    /\ reply' = Reply("executeNode", call.userId, call.workflowId, TRUE, <<>>, call.runId)
    /\ call' = NoCall
    /\ UNCHANGED <<otherVars, workflows, triggered>>

\* inner catch: nodeExecution.update FAILED
ExecuteNodeFailed ==
    /\ call.action = "executeNode" /\ call.step = "nodeFailed"
    /\ wfRuns' = LogNode(call.runId, "FAILED")
    /\ call' = AtStep("runFailed")
    /\ UNCHANGED <<otherVars, workflows, triggered, reply>>

\* inner catch: workflowRun.update FAILED and the failure return
ExecuteNodeRunFailed ==
    /\ call.action = "executeNode" /\ call.step = "runFailed"
    /\ wfRuns' = [wfRuns EXCEPT ![call.runId].status = "FAILED"]
    /\ reply' = Reply("executeNode", call.userId, call.workflowId, FALSE, <<>>, call.runId)
    /\ call' = NoCall
    /\ UNCHANGED <<otherVars, workflows, triggered>>

NextAccess ==
    \/ \E u \in Callers, w \in WorkflowIdArgs : SaveWorkflowAction(u, w)
    \/ \E u \in Callers, w \in WorkflowIdArgs : LoadWorkflowAction(u, w)
    \/ \E u \in Callers, w \in WorkflowIdArgs : DeleteWorkflowAction(u, w)
    \/ \E u \in Callers, w \in WorkflowIdArgs : GetWorkflowHistoryAction(u, w)
    \/ \E u \in Callers, w \in WorkflowIdArgs : RunWorkflowCreate(u, w)
    \/ RunWorkflowTrigger
    \/ \E u \in Callers, w \in WorkflowIdArgs : ExecuteNodeCreate(u, w)
    \/ \E nodeType \in NodeTypeArgs : ExecuteNodeRecord(nodeType)
    \/ ExecuteNodeTask
    \/ ExecuteNodeSuccess
    \/ ExecuteNodeCompleted
    \/ ExecuteNodeFailed
    \/ ExecuteNodeRunFailed

SpecAccess == InitAccess /\ [][NextAccess]_vars

\* ------------------------------- single-node path with failing writes
\* a write of executeNodeAction inside the inner try throws (the SUCCESS update
\* of the record, the COMPLETED update of the run): the inner catch takes over
ExecuteNodeTryWriteFails ==
    /\ call.action = "executeNode" /\ call.step \in {"nodeSuccess", "runCompleted"}
    /\ call' = AtStep("nodeFailed")
    /\ UNCHANGED <<otherVars, workflows, wfRuns, triggered, reply>>

\* a write outside the inner try throws (nodeExecution.create, the FAILED
\* updates of the inner catch): the outer catch returns the failure
ExecuteNodeOtherWriteFails ==
    /\ call.action = "executeNode" /\ call.step \in {"record", "nodeFailed", "runFailed"}
    /\ ExecuteNodeOuterCatch
    /\ UNCHANGED <<otherVars, workflows, wfRuns, triggered>>

NextAccessDb ==
    \/ NextAccess
    \/ ExecuteNodeTryWriteFails
    \/ ExecuteNodeOtherWriteFails

SpecAccessDb == InitAccess /\ [][NextAccessDb]_vars

\* ------------------------------------------- editor header: export, import
MaxEditorNodes == 2
MaxEditorEdges == 2

\* names the header can show; the name input can be emptied
Names == {"Untitled", ""}

\* nodes of the canvas: one with a value in its data, one with none
EditorNodeChoices ==
    {[type |-> "textNode", data |-> [NoData EXCEPT !.text = "Describe this"]],
     [type |-> "llmNode", data |-> NoData]}

EditorNodeLists ==
    UNION {{[i \in 1..n |-> NodeData(i, c[i].type, c[i].data)] :
                c \in [1..n -> EditorNodeChoices]}
           : n \in 0..MaxEditorNodes}

EditorEdgeLists(n) ==
    SeqsUpTo({EdgeData(s, t, h) : s \in 1..n, t \in 1..n, h \in {Undefined, "prompt"}},
             MaxEditorEdges)

\* JSON.stringify of an object: a property whose value is undefined is left out
StringifyObject(obj) == [k \in {j \in DOMAIN obj : obj[j] # Undefined} |-> obj[k]]

\* reading property k of a parsed object: undefined when the text has no k
Prop(obj, k) == IF k \in DOMAIN obj THEN obj[k] ELSE Undefined

StringifyNode(n) == [id |-> n.id, type |-> n.type, data |-> StringifyObject(n.data)]

\* variant of StringifyEdge that leaves the handle out
StringifyEdgeEnds(e) == [source |-> e.source, target |-> e.target]

StringifyEdge(e) ==
    IF e.targetHandle = Undefined
    THEN [source |-> e.source, target |-> e.target]
    ELSE [source |-> e.source, target |-> e.target, targetHandle |-> e.targetHandle]

\* JSON.stringify(workflowData, null, 2): the text of the download
Stringify(name, ns, es) ==
    [kind  |-> "workflow",
     name  |-> name,
     nodes |-> [i \in 1..Len(ns) |-> StringifyNode(ns[i])],
     edges |-> [i \in 1..Len(es) |-> StringifyEdge(es[i])]]

\* the objects JSON.parse builds from the text, as the program reads them
ParseNode(n) ==
    NodeData(n.id, n.type, [k \in DOMAIN NoData |-> Prop(n.data, k)])

ParseEdge(e) == EdgeData(Prop(e, "source"), Prop(e, "target"), Prop(e, "targetHandle"))

Parse(doc) ==
    [name  |-> doc.name,
     nodes |-> [i \in 1..Len(doc.nodes) |-> ParseNode(doc.nodes[i])],
     edges |-> [i \in 1..Len(doc.edges) |-> ParseEdge(doc.edges[i])]]

\* files the user can pick that no export of this session made: text that is
\* not JSON, JSON without the two arrays, a graph with a cycle, a graph with an
\* edge to a node that is not there, and a valid graph with and without a name
ForeignFiles ==
    LET a == NodeData(1, "llmNode", NoData)
        b == NodeData(2, "llmNode", NoData)
    IN  {[NoFile EXCEPT !.kind = "malformed"],
         [NoFile EXCEPT !.kind = "other"],
         Stringify("Loop", <<a>>, <<EdgeData(1, 1, Undefined)>>),
         Stringify("Loose", <<a>>, <<EdgeData(1, 2, Undefined)>>),
         Stringify("Chain", <<a, b>>, <<EdgeData(1, 2, Undefined)>>),
         Stringify(Undefined, <<b, a>>, <<>>)}

Event(handler, alert, own, graph) ==
    [handler |-> handler, alert |-> alert, own |-> own, graph |-> graph]

InitEditor ==
    /\ nodes \in EditorNodeLists
    /\ edges \in EditorEdgeLists(Len(nodes))
    /\ ValidDAG(nodes, edges)
    /\ mode = "editor"
    /\ Idle
    /\ DirectIdle
    /\ AccessIdle
    /\ workflowName \in Names
    /\ workflowId \in {0, 1}
    /\ file = NoFile
    /\ shared = NoShared
    /\ event = NoEvent
    /\ runner = NoRunner

restVars == <<seqVars, mode, planVars, runVars, coordVars, nodeVars, histVars, directVars, accessVars>>

\* handleShare: the canvas goes into a JSON download
HandleShare ==
    /\ mode = "editor"
    /\ IF Len(nodes) = 0
       THEN /\ event' = Event("handleShare", "Nothing to share! The canvas is empty.",
                              FALSE, "none")
            /\ UNCHANGED <<file, shared>>
       ELSE /\ file' = Stringify(workflowName, nodes, edges)
            /\ shared' = [nodes |-> nodes, edges |-> edges]
            /\ event' = Event("handleShare", Undefined, FALSE, "none")
    /\ UNCHANGED <<restVars, nodes, edges, workflowName, workflowId, runner>>

\* handleFileChange and reader.onload for the picked file d; ok is the answer
\* to confirm()
HandleFileChange(d, ok) ==
    /\ mode = "editor"
    /\ d.kind # "none"
    /\ IF d.kind = "malformed"
       THEN /\ event' = Event("handleFileChange", "Failed to parse JSON file.", d = file, "none")
            /\ UNCHANGED <<nodes, edges, workflowName, workflowId>>
       ELSE IF d.kind = "workflow"
       THEN LET data  == Parse(d)
                graph == IF ValidDAG(data.nodes, data.edges) THEN "valid" ELSE "invalid"
            IN  IF Len(nodes) > 0 /\ ~ok
                THEN /\ event' = Event("handleFileChange", Undefined, d = file, graph)
                     /\ UNCHANGED <<nodes, edges, workflowName, workflowId>>
                ELSE /\ nodes' = data.nodes
                     /\ edges' = data.edges
                     /\ workflowName' = IF Falsy(data.name) THEN workflowName ELSE data.name
                     /\ workflowId' = 0
                     /\ event' = Event("handleFileChange", "Workflow imported successfully!",
                                       d = file, graph)
       ELSE /\ event' = Event("handleFileChange", "Invalid workflow file format.", d = file, "none")
            /\ UNCHANGED <<nodes, edges, workflowName, workflowId>>
    /\ UNCHANGED <<restVars, file, shared, runner>>

\* handleSave: the id the server action returns becomes the workflow id
HandleSave ==
    /\ mode = "editor"
    /\ ~runner.isSaving /\ ~runner.isRunning
    /\ IF Len(nodes) = 0
       THEN /\ event' = Event("handleSave", "Canvas is empty!", FALSE, "none")
            /\ workflowId' = workflowId
       ELSE \E success \in BOOLEAN :
              IF success
              THEN /\ workflowId' = 1
                   /\ event' = Event("handleSave", Undefined, FALSE, "none")
              ELSE /\ workflowId' = workflowId
                   /\ event' = Event("handleSave", "Error", FALSE, "none")
    /\ UNCHANGED <<restVars, nodes, edges, workflowName, file, shared, runner>>

NextEditor ==
    \/ HandleShare
    \/ \E d \in ForeignFiles \cup {file} : \E ok \in BOOLEAN : HandleFileChange(d, ok)
    \/ HandleSave

SpecEditor == InitEditor /\ [][NextEditor]_vars

\* ids the server can give a workflow it creates
MaxNewId == 2
NewIds == 1..MaxNewId

\* what the awaited saveWorkflowAction can do: return an id, report success
\* without an id, report an error, or reject
SaveOutcomes == {"id", "noId", "error", "throw"}

\* what the awaited runWorkflowAction can do
RunOutcomes == {"success", "failure", "throw"}

\* handleRun up to its first await: setIsRunning(true), currentId takes the
\* workflowId of this render, handleSave starts and either returns null on an
\* empty canvas or sets isSaving and calls saveWorkflowAction
HandleRunStart ==
    /\ mode = "editor"
    /\ runner.pos = "idle" /\ ~runner.isSaving /\ ~runner.isRunning
    /\ IF Len(nodes) = 0
       THEN /\ runner' = [NoRunner EXCEPT !.pos = "saved", !.isRunning = TRUE,
                                          !.currentId = workflowId]
            /\ event' = Event("handleSave", "Canvas is empty!", FALSE, "none")
       ELSE /\ runner' = [NoRunner EXCEPT !.pos = "saving", !.isRunning = TRUE,
                                          !.isSaving = TRUE, !.currentId = workflowId]
            /\ event' = Event("handleRun", Undefined, FALSE, "none")
    /\ UNCHANGED <<restVars, nodes, edges, workflowName, workflowId, file, shared>>

\* the id saveWorkflowAction answers with: the id it was given, or a new one
SavedIds(id) == IF id # 0 THEN {id} ELSE NewIds

\* saveWorkflowAction settles inside handleSave: the rest of its try, its
\* catch and its finally
HandleRunSaved ==
    /\ mode = "editor"
    /\ runner.pos = "saving"
    /\ \E res \in SaveOutcomes : \E id \in SavedIds(runner.currentId) :
          /\ runner' = [runner EXCEPT !.pos = "saved", !.isSaving = FALSE,
                                      !.savedId = IF res = "id" THEN id ELSE 0]
          /\ workflowId' = IF res = "id" THEN id ELSE workflowId
          /\ event' = Event("handleSave",
                            CASE res = "noId" -> "Saved, but no ID returned."
                              [] res = "error" -> "Error"
                              [] OTHER -> Undefined,
                            FALSE, "none")
    /\ UNCHANGED <<restVars, nodes, edges, workflowName, file, shared>>

\* a variant that runs with the workflowId of the render instead of the id
\* handleSave returned
HandleRunAfterSaveStale ==
    /\ mode = "editor"
    /\ runner.pos = "saved"
    /\ IF runner.savedId = 0
       THEN runner' = [runner EXCEPT !.pos = "idle", !.isRunning = FALSE,
                                     !.outcome = "notSaved"]
       ELSE runner' = [runner EXCEPT !.pos = "running", !.called = <<runner.currentId>>]
    /\ UNCHANGED <<restVars, nodes, edges, workflowName, workflowId, file, shared, event>>

\* handleRun after handleSave returned: no id ends it, an id becomes currentId
\* and is passed to runWorkflowAction
HandleRunAfterSave ==
    /\ mode = "editor"
    /\ runner.pos = "saved"
    /\ IF runner.savedId = 0
       THEN runner' = [runner EXCEPT !.pos = "idle", !.isRunning = FALSE,
                                     !.outcome = "notSaved"]
       ELSE runner' = [runner EXCEPT !.pos = "running", !.currentId = runner.savedId,
                                     !.called = <<runner.savedId>>]
    /\ UNCHANGED <<restVars, nodes, edges, workflowName, workflowId, file, shared, event>>

\* runWorkflowAction settles: the rest of the try, the catch and the finally
HandleRunSettled ==
    /\ mode = "editor"
    /\ runner.pos = "running"
    /\ \E res \in RunOutcomes :
          /\ runner' = [runner EXCEPT !.pos = "idle", !.isRunning = FALSE, !.outcome = res]
          /\ event' = Event("handleRun",
                            CASE res = "failure" -> "Run Failed"
                              [] res = "throw" -> "Error starting run"
                              [] OTHER -> Undefined,
                            FALSE, "none")
    /\ UNCHANGED <<restVars, nodes, edges, workflowName, workflowId, file, shared>>

\* the editor with an empty canvas or a single node on it
InitEditorRun ==
    /\ InitEditor
    /\ Len(nodes) <= 1
    /\ edges = <<>>
    /\ workflowName = "Untitled"

\* the handlers that read or write workflowId, isSaving and isRunning
NextEditorRun ==
    \/ HandleRunStart
    \/ HandleRunSaved
    \/ HandleRunAfterSave
    \/ HandleRunSettled
    \/ HandleSave
    \/ \E d \in ForeignFiles \cup {file} : \E ok \in BOOLEAN : HandleFileChange(d, ok)

SpecEditorRun == InitEditorRun /\ [][NextEditorRun]_vars

\* ------------------------------------------------------ input resolution
MaxSources == 2
MaxResolveEdges == 2

\* passive nodes as the editor can store them: text typed or left empty, file
\* uploaded or not
SourceChoices ==
    {[type |-> "textNode", data |-> [NoData EXCEPT !.text = t]] :
        t \in {"Describe this", "Be brief", ""}}
    \cup {[type |-> "imageNode", data |-> [NoData EXCEPT !.url = u]] :
        u \in {"http://x/a.png", "http://x/b.png", Undefined}}
    \cup {[type |-> "videoNode", data |-> [NoData EXCEPT !.url = u]] :
        u \in {"http://x/v.mp4", Undefined}}

\* active nodes with and without the manual value of their input
TargetChoices ==
    {[type |-> "llmNode", data |-> [NoData EXCEPT !.prompt = v]] :
        v \in {"Summarize", Undefined}}
    \cup {[type |-> "cropImageNode", data |-> [NoData EXCEPT !.imageUrl = u]] :
        u \in {"http://x/m.png", Undefined}}
    \cup {[type |-> "extractFrameNode", data |-> [NoData EXCEPT !.videoUrl = u]] :
        u \in {"http://x/m.mp4", Undefined}}

TargetHandles == {"system-prompt", "prompt", "image-0"}

\* up to MaxSources passive nodes followed by the active node they feed
ResolveNodeLists ==
    UNION {{[i \in 1..(k + 1) |->
                IF i <= k THEN NodeData(i, src[i].type, src[i].data)
                ELSE NodeData(i, tgt.type, tgt.data)] :
            src \in [1..k -> SourceChoices], tgt \in TargetChoices}
           : k \in 0..MaxSources}

\* edges into the active node, in any declared order
ResolveEdgeLists(n) ==
    SeqsUpTo({EdgeData(s, n, h) : s \in 1..(n - 1), h \in TargetHandles},
             MaxResolveEdges)

InitResolve ==
    /\ nodes \in ResolveNodeLists
    /\ edges \in ResolveEdgeLists(Len(nodes))
    /\ mode = "run"
    /\ Idle
    /\ DirectIdle
    /\ AccessIdle
    /\ EditorIdle

SpecResolve == InitResolve /\ [][Next]_vars

\* ------------------------------------------------------------- claims
\* C1: for every valid DAG, each edge goes from a strictly earlier layer to a
\* later one and the layers partition the node set.
C1_LayeringCorrect ==
    (planned /\ ValidDAG(nodes, edges)) =>
        /\ \A k \in 1..Len(edges) :
              /\ LayerIndex(layers, edges[k].source) >= 1
              /\ LayerIndex(layers, edges[k].source) < LayerIndex(layers, edges[k].target)
        /\ \A id \in NodeIds(nodes) : Occurrences(layers, id) = 1
        /\ TotalCount(layers) = Len(nodes)

C1_Witness ==
    /\ planned
    /\ ValidDAG(nodes, edges)
    /\ Len(nodes) = 3
    /\ Len(edges) >= 2
    /\ Len(layers) = 2
    /\ \E i \in 1..Len(layers) : Len(layers[i]) = 2

\* ---- helpers of the claims about a run
TypeOf(id) == NodeOf(nodes, id).type

FailedOutcomes == TaskOutcomes \ {"COMPLETED"}

Finished == phase \in {"done", "thrown"}

\* the record of the current execution for id has the given status
HasStatus(id, st) == ExecsOf(id) # <<>> /\ Last(ExecsOf(id)).status = st

\* C2: a graph with a directed cycle is rejected before any layer is computed
\* and before a WorkflowRun record exists; nothing is dispatched for it.
C2_CycleRejected ==
    (mode = "run" /\ HasCycle(nodes, edges)) =>
        /\ runStatus = "none"
        /\ ~planned
        /\ DOMAIN tf = {}
        /\ DOMAIN task = {}

C4_FanOutBeforePoll ==
    (mode = "run" /\ phase \in {"poll1", "poll2"}) =>
        \A id \in ActiveOf(CurrentLayer) :
            /\ tf[id] = "resolved"
            /\ (TypeOf(id) \in ExecutorTypes =>
                   /\ id \in DOMAIN task
                   /\ \E i \in 1..Len(pendingTasks) : pendingTasks[i].node = id)

C4_Witness ==
    /\ mode = "run"
    /\ phase = "poll1"
    /\ pollIdx = 1
    /\ Len(pendingTasks) = 3
    /\ \A i \in 1..3 : task[pendingTasks[i].node] = "EXECUTING"

\* C5: A and B in one layer, A's unit of work succeeds, B's fails, C depends on
\* B: the run ends FAILED, A is SUCCESS with output, B is FAILED with an error,
\* C has no record.
C5_PartialFailureVisible ==
    \A a, b, c \in NodeIds(nodes) :
        (/\ mode = "run" /\ Finished
         /\ a # b
         /\ LayerIndex(layers, a) >= 1
         /\ LayerIndex(layers, a) = LayerIndex(layers, b)
         /\ LayerIndex(layers, c) > LayerIndex(layers, b)
         /\ \E k \in 1..Len(edges) : edges[k].source = b /\ edges[k].target = c
         /\ a \in DOMAIN task /\ task[a] = "COMPLETED"
         /\ b \in DOMAIN task /\ task[b] \in FailedOutcomes)
        => /\ runStatus = "FAILED"
           /\ HasStatus(a, "SUCCESS") /\ Last(ExecsOf(a)).output # Undefined
           /\ HasStatus(b, "FAILED") /\ Last(ExecsOf(b)).error # Undefined
           /\ ExecsOf(c) = <<>>

\* C6: every NodeExecution is created RUNNING and updated exactly once; once the
\* run is COMPLETED or FAILED no record of it is RUNNING (stated for graphs
\* whose nodes all have one of the six supported types).
C6_ExactlyOnceFinalized ==
    (/\ mode = "run" /\ runStatus \in Terminal
     /\ \A i \in 1..Len(nodes) : nodes[i].type \in PassiveTypes \cup ExecutorTypes) =>
        \A id \in DOMAIN execs : \A i \in 1..Len(execs[id]) :
            /\ execs[id][i].status \in {"SUCCESS", "FAILED"}
            /\ execs[id][i].updates = 1

\* C7: the run status moves PENDING -> RUNNING -> COMPLETED or FAILED only;
\* RUNNING is written before any NodeExecution exists, a finished execution has
\* written exactly one terminal status, and COMPLETED is never written once a
\* node has failed.
C7_RunStateMachine ==
    mode = "run" =>
        /\ statusLog \in {<<>>, <<"PENDING">>, <<"PENDING", "RUNNING">>,
                          <<"PENDING", "RUNNING", "COMPLETED">>,
                          <<"PENDING", "RUNNING", "FAILED">>}
        /\ runStatus = IF statusLog = <<>> THEN "none" ELSE Last(statusLog)
        /\ (DOMAIN execs # {} => Len(statusLog) >= 2)
        /\ (Finished <=> Len(statusLog) = 3)
        /\ (runStatus = "COMPLETED" =>
               /\ \A id \in DOMAIN execs : ~HasStatus(id, "FAILED")
               /\ \A id \in DOMAIN tf : tf[id] = "resolved"
               /\ \A id \in DOMAIN task : task[id] = "COMPLETED")

C7_Witness ==
    /\ mode = "run"
    /\ statusLog = <<"PENDING", "RUNNING", "FAILED">>
    /\ \E a, b \in DOMAIN execs : HasStatus(a, "SUCCESS") /\ HasStatus(b, "FAILED")

\* C8: once the run status is COMPLETED or FAILED nothing changes it, and no
\* node gets a second NodeExecution record, even when the same runId is
\* delivered to the orchestrator again.
C8_TerminalImmutable ==
    mode = "run" =>
        /\ \A i \in 1..(Len(statusLog) - 1) : statusLog[i] \notin Terminal
        /\ \A id \in DOMAIN execs : Len(execs[id]) <= 1

\* C9: when the run is written FAILED, no triggerFn and no unit of work of the
\* failing layer is still pending.
C9_FailedAfterSiblingsSettle ==
    (mode = "run" /\ runStatus = "FAILED") =>
        \A id \in ActiveOf(CurrentLayer) :
            /\ tf[id] \in {"resolved", "rejected"}
            /\ (id \in DOMAIN task => task[id] # "EXECUTING")

\* a node has failed: input missing or trigger error (the triggerFn is in or
\* past its catch block) or its unit of work ended other than COMPLETED
NodeFailed(id) ==
    \/ id \in DOMAIN tf /\ tf[id] \in {"catch", "rejected"}
    \/ id \in DOMAIN task /\ task[id] \in FailedOutcomes

\* C10: by the time the run is written FAILED, the record of every node that
\* has failed is FAILED with an error; a finished run with a failed node is FAILED.
C10_FailureNeverSwallowed ==
    mode = "run" =>
        /\ runStatus = "FAILED" =>
              \A id \in NodeIds(nodes) : NodeFailed(id) =>
                  HasStatus(id, "FAILED") /\ Last(ExecsOf(id)).error # Undefined
        /\ Finished /\ (\E id \in NodeIds(nodes) : NodeFailed(id)) => runStatus = "FAILED"

\* number of assignments to context[id] made by the current execution
WritesOf(id) == IF id \in DOMAIN ctxWrites THEN ctxWrites[id] ELSE 0

\* the layer loop has left the layer that holds id
Processed(id) == planned /\ LayerIndex(layers, id) \in 1..(layerIdx - 1)

\* the node has a value to publish: typed text, an uploaded file, a task result
Produces(id) ==
    LET node == NodeOf(nodes, id)
    IN  \/ node.type = "textNode"
        \/ node.type \in {"imageNode", "videoNode"} /\ node.data.url # Undefined
        \/ node.type \in ExecutorTypes

PayloadOf(id) == Last(dispatched[id])

\* the text a passive text node publishes
TextOf(id) == NodeOf(nodes, id).data.text

\* the two incoming edges of id are a system-prompt edge at position i and an
\* edge on another handle at position j, both from text nodes with typed text
SystemAndUser(id, i, j) ==
    LET es == IncomingEdges(edges, id)
    IN  /\ Len(es) = 2
        /\ {i, j} = {1, 2}
        /\ es[i].targetHandle = "system-prompt"
        /\ es[j].targetHandle # "system-prompt"
        /\ \A k \in {i, j} :
              TypeOf(es[k].source) = "textNode" /\ ~Falsy(TextOf(es[k].source))

Scenario13 ==
    /\ Len(nodes) = 3
    /\ nodes[1].type = "textNode" /\ nodes[1].data.text = "Describe this"
    /\ nodes[2].type = "imageNode" /\ nodes[2].data.url = "http://x/a.png"
    /\ nodes[3].type = "llmNode"
    /\ edges = <<EdgeData(1, 3, "prompt"), EdgeData(2, 3, "image-0")>>

\* C13: for the scenario the plan is [[T1, I1], [L1]] and L1 is dispatched with
\* user message "Describe this" and images ["http://x/a.png"].
C13_ConcreteScenario ==
    Scenario13 =>
        /\ planned => layers = <<<<1, 2>>, <<3>>>>
        /\ 3 \in DOMAIN dispatched =>
              /\ PayloadOf(3).prompt = "Describe this"
              /\ PayloadOf(3).imageUrls = <<"http://x/a.png">>

\* positions in the declared edge list of the edges into id whose source has
\* published an image (a video) by the time id is dispatched
ImageEdges(id) ==
    {k \in 1..Len(edges) :
        /\ edges[k].target = id
        /\ TypeOf(edges[k].source) = "imageNode"
        /\ Produces(edges[k].source)}

VideoEdges(id) ==
    {k \in 1..Len(edges) :
        /\ edges[k].target = id
        /\ TypeOf(edges[k].source) = "videoNode"
        /\ Produces(edges[k].source)}

\* the single input the claim prescribes for a crop or extract node
ExpectedInput(id) ==
    LET node == NodeOf(nodes, id)
        ks == IF node.type = "cropImageNode" THEN ImageEdges(id) ELSE VideoEdges(id)
    IN  IF ks # {} THEN NodeOf(nodes, edges[Min(ks)].source).data.url
        ELSE IF node.type = "cropImageNode" THEN node.data.imageUrl
        ELSE node.data.videoUrl

\* C14: a crop or extract node whose inputs have been resolved was dispatched
\* exactly once with the value of the first edge in declared order that has an
\* image (a video), else with its manual URL; with neither, no unit of work is
\* dispatched, its NodeExecution ends FAILED and the run ends FAILED.
C14_SingleValuedResolution ==
    \A id \in DOMAIN tf :
        (TypeOf(id) \in {"cropImageNode", "extractFrameNode"} /\ tf[id] # "create") =>
            IF ExpectedInput(id) # Undefined
            THEN /\ Len(DispatchedOf(id)) = 1
                 /\ PayloadOf(id).url = ExpectedInput(id)
            ELSE /\ DispatchedOf(id) = <<>>
                 /\ id \notin DOMAIN task
                 /\ tf[id] \in {"catch", "rejected"}
                 /\ tf[id] = "rejected" => HasStatus(id, "FAILED")
                 /\ runStatus # "COMPLETED"
                 /\ Finished => runStatus = "FAILED"

C14_Witness ==
    /\ Len(nodes) = 3
    /\ TypeOf(3) = "cropImageNode"
    /\ nodes[3].data.imageUrl # Undefined
    /\ Len(edges) = 2
    /\ edges[1].source = 2 /\ edges[2].source = 1
    /\ ImageEdges(3) = {1, 2}
    /\ nodes[1].data.url # nodes[2].data.url
    /\ 3 \in DOMAIN dispatched
    /\ PayloadOf(3).url = nodes[2].data.url

\* neither a typed prompt nor an upstream text or image reaches the LLM node
NoResolvableInput(id) ==
    /\ Falsy(NodeOf(nodes, id).data.prompt)
    /\ \A k \in 1..Len(edges) :
          edges[k].target = id =>
            /\ ~(TypeOf(edges[k].source) = "textNode" /\ ~Falsy(TextOf(edges[k].source)))
            /\ ~(TypeOf(edges[k].source) = "imageNode" /\ Produces(edges[k].source))
            /\ TypeOf(edges[k].source) \notin ExecutorTypes

\* C15: an LLM node with zero resolvable inputs fails validation at dispatch
\* time: its NodeExecution ends FAILED and no generation is triggered for it.
C15_LlmWithoutInputFails ==
    \A id \in DOMAIN tf :
        (TypeOf(id) = "llmNode" /\ tf[id] # "create" /\ NoResolvableInput(id)) =>
            /\ DispatchedOf(id) = <<>>
            /\ id \notin DOMAIN task
            /\ tf[id] \in {"catch", "rejected"}
            /\ tf[id] = "rejected" => HasStatus(id, "FAILED")

\* C17: in one orchestrator execution the unit of work of a node is triggered
\* at most once and has at most one NodeExecution record; once a node has
\* failed it is not triggered again, no node of a later layer is started and
\* the run is never written COMPLETED.
C17_NoRetryOrchestrated ==
    /\ \A id \in DOMAIN dispatched : Len(dispatched[id]) = 1
    /\ \A id \in DOMAIN execs : Len(execs[id]) = 1
    /\ \A id \in NodeIds(nodes) :
          NodeFailed(id) =>
            /\ Len(DispatchedOf(id)) <= 1
            /\ runStatus # "COMPLETED"
            /\ \A other \in DOMAIN tf :
                  LayerIndex(layers, other) <= LayerIndex(layers, id)

C17_Witness ==
    /\ phase = "thrown"
    /\ \E id, other \in NodeIds(nodes) :
          /\ id \in DOMAIN task /\ task[id] = "FAILED"
          /\ Len(DispatchedOf(id)) = 1
          /\ HasStatus(id, "FAILED")
          /\ LayerIndex(layers, other) > LayerIndex(layers, id)
          /\ TypeOf(other) \in ExecutorTypes
          /\ other \notin DOMAIN tf

Blank(str) == \A i \in 1..Len(str) : str[i] = " "

\* prompt empty or whitespace, system prompt absent or whitespace, no image
NoInputs(r) ==
    /\ Blank(r.prompt)
    /\ r.systemPrompt = <<>> \/ Blank(r.systemPrompt[1])
    /\ r.imageUrls = <<>>

\* C16: a schema-valid request without any input is answered 400 and
\* executeGemini is never invoked for it; a schema-valid request with at least
\* one input has had executeGemini invoked by the time it is answered.
C16_DirectValidation ==
    request.body = "valid" =>
        IF NoInputs(request)
        THEN /\ calls = 0
             /\ dpc = "responded" => httpStatus = 400
        ELSE /\ dpc = "responded" => calls >= 1
             /\ dpc # "idle" => attempt >= 1

C16_Witness ==
    /\ dpc = "responded"
    /\ request.body = "valid"
    /\ request.prompt = <<" ", " ">>
    /\ request.systemPrompt = << <<" ">> >>
    /\ httpStatus = 400
    /\ calls = 0

\* executeGeminiWithRetry has returned to POST
Returned == dpc \in {"returned", "responded"}

\* C18: executeGeminiWithRetry invokes executeGemini at least once and at most
\* MaxRetries times, makes no further call after a successful attempt and
\* returns that attempt's result, and always returns.
C18_BoundedRetry ==
    /\ [](/\ calls <= MaxRetries
          /\ Returned /\ attempt >= 1 =>
                /\ calls \in 1..MaxRetries
                /\ thrown.kind = "success" => result = ExecuteGeminiResult(thrown))
    /\ [][thrown.kind = "success" => (calls' = calls /\ result' = result)]_vars
    /\ (dpc = "attempt") ~> Returned

C18_Witness ==
    /\ dpc = "responded"
    /\ calls = MaxRetries
    /\ Len(waits) = MaxRetries - 1
    /\ thrown.kind = "success"
    /\ result.success
    /\ httpStatus = 200

\* the generation call failed with an overload signal / a rate-limit signal
OverloadSignal(out) ==
    out.kind = "error" /\ out.marks \cap {"503", "overloaded"} # {}

RateLimitSignal(out) ==
    out.kind = "error" /\ out.marks \cap {"429", "rate limit"} # {}

\* C19: an attempt that fails with an overload or a rate-limit signal is
\* followed by a backoff wait and a further attempt; the retry function returns
\* such a failure only from the last of the MaxRetries attempts.
C19_TransientRetried ==
    (Returned /\ (OverloadSignal(thrown) \/ RateLimitSignal(thrown))) =>
        /\ calls = MaxRetries
        /\ Len(waits) = MaxRetries - 1

\* the generation call failed with neither an overload nor a rate-limit signal
Permanent(out) ==
    /\ out.kind \in {"error", "nonError"}
    /\ ~OverloadSignal(out)
    /\ ~RateLimitSignal(out)

\* C20: an attempt that fails with a permanent error ends the retry function at
\* once with that failure as its result and no wait after it; when it is the
\* first attempt, executeGemini has been invoked exactly once and no wait was made.
C20_PermanentFailsAtOnce ==
    Permanent(thrown) =>
        /\ Returned
        /\ calls = attempt
        /\ Len(waits) = calls - 1
        /\ result = ExecuteGeminiResult(thrown)
        /\ ~result.success
        /\ attempt = 1 => (calls = 1 /\ waits = <<>>)

C20_Witness ==
    /\ dpc = "responded"
    /\ thrown = [kind |-> "error", marks |-> {"quota"}]
    /\ calls = 1
    /\ waits = <<>>
    /\ ~result.success

\* C21: once a write of a status transition has thrown, the error leaves
\* orchestrator.run (it never returns and COMPLETED is never recorded), and no
\* triggerFn, NodeExecution or unit of work exists for a node of a layer after
\* the one the loop was at when the write threw.
C21_PersistenceFatal ==
    \A e \in dbErrors :
        /\ runStatus # "COMPLETED"
        /\ phase # "done"
        /\ layerIdx <= Max({e.layer, Len(layers) + 1})
        /\ e.write # "run.COMPLETED" => layerIdx = e.layer
        /\ \A id \in (DOMAIN tf) \cup (DOMAIN execs) \cup (DOMAIN dispatched) :
              LayerIndex(layers, id) <= e.layer

C21_Witness ==
    /\ phase = "thrown"
    /\ \E e \in dbErrors : e.write = "node.SUCCESS"
    /\ \E e \in dbErrors : e.write = "run.FAILED"
    /\ runStatus = "RUNNING"
    /\ \E id \in NodeIds(nodes) :
          /\ TypeOf(id) \in ExecutorTypes
          /\ LayerIndex(layers, id) > layerIdx
          /\ id \notin DOMAIN tf

\* C22: a user only reads, updates, deletes, runs, executes nodes of and reads
\* the history of workflows they own: a run is only created by the owner of its
\* workflow, a history request for another user's workflow returns no runs, and
\* load, save and delete only succeed for the owner.
C22_UserScoped ==
    /\ call.action \in {"run", "executeNode"} =>
          Owned(call.userId, call.workflowId)
    /\ (/\ reply.action = "history"
        /\ reply.workflowId \in 1..Len(workflows)
        /\ workflows[reply.workflowId].userId # reply.userId) =>
          reply.runs = <<>>
    /\ (reply.action \in {"load", "save", "delete"} /\ reply.success) =>
          workflows[reply.workflowId].userId = reply.userId

\* C25: a runId is handed to the orchestrator only when its WorkflowRun record
\* already exists, created PENDING in an earlier step of runWorkflowAction; the
\* action returns success in the step in which the trigger call resolves, with
\* the run still PENDING.
C25_FireAndForget ==
    /\ [](\A i \in 1..Len(triggered) : triggered[i] \in 1..Len(wfRuns))
    /\ [][triggered' # triggered =>
            /\ wfRuns' = wfRuns
            /\ Last(triggered') \in 1..Len(wfRuns)
            /\ wfRuns[Last(triggered')].status = "PENDING"
            /\ wfRuns[Last(triggered')].triggerType = "MANUAL"]_vars
    /\ [][(reply' # reply /\ reply'.action = "run" /\ reply'.success) =>
            /\ triggered' = Append(triggered, reply'.runId)
            /\ wfRuns'[reply'.runId].status = "PENDING"]_vars

C25_Witness ==
    /\ reply.action = "run"
    /\ reply.success
    /\ reply.runId = 2
    /\ triggered = <<1, 2>>
    /\ wfRuns[2].status = "PENDING"
    /\ call = NoCall

\* every node that feeds id directly has published its result
DirectDepsDone(id) ==
    \A k \in 1..Len(edges) :
        (edges[k].target = id /\ edges[k].source \in NodeIds(nodes)) =>
            \/ /\ TypeOf(edges[k].source) \notin ExecutorTypes
               /\ LayerIndex(layers, edges[k].source) \in 1..layerIdx
            \/ /\ edges[k].source \in DOMAIN context
               /\ HasStatus(edges[k].source, "SUCCESS")

\* the coordinator is inside a polling loop on the unit of work of node j,
\* which has not finished
WaitingOn(j) ==
    /\ phase \in {"poll1", "poll2"}
    /\ pollIdx <= Len(pendingTasks)
    /\ pendingTasks[pollIdx].node = j
    /\ j \in DOMAIN task
    /\ task[j] = "EXECUTING"

\* C23: a node whose direct dependencies have all completed is dispatched
\* without waiting for a node it does not depend on: the coordinator never
\* holds back such a node while it polls a node from which no path leads to it.
C23_DirectDependenciesOnly ==
    (mode = "run" /\ planned) =>
        \A id \in NodeIds(nodes) : \A j \in NodeIds(nodes) :
            ~ (/\ TypeOf(id) \in ExecutorTypes
               /\ id \notin DOMAIN tf
               /\ \E k \in 1..Len(edges) : edges[k].target = id
               /\ DirectDepsDone(id)
               /\ j # id
               /\ id \notin Descendants(edges, j)
               /\ WaitingOn(j))


\* C24: a graph with an edge whose source or target is not a node of the graph
\* is rejected before planning: no layer is computed for it and nothing is
\* dispatched.
C24_DanglingRejected ==
    (mode = "plan" /\ ~NoDangling(nodes, edges)) =>
        /\ ~planned
        /\ layers = <<>>
        /\ DOMAIN tf = {}


\* ids with an edge into id
Preds(es, id) == {es[k].source : k \in {j \in 1..Len(es) : es[j].target = id}}

\* C29: for every valid DAG the layers are as wide as they can be: a node
\* without incoming edges is in the first layer, any other node is in the layer
\* right after the latest layer of its direct predecessors, and no directed path
\* connects two nodes of one layer.
C29_MaximumWidthLayers ==
    (planned /\ ValidDAG(nodes, edges)) =>
        \A id \in NodeIds(nodes) :
            /\ Preds(edges, id) = {} => LayerIndex(layers, id) = 1
            /\ Preds(edges, id) # {} =>
                  LayerIndex(layers, id) =
                      Max({LayerIndex(layers, q) : q \in Preds(edges, id)}) + 1
            /\ \A j \in NodeIds(nodes) :
                  (j # id /\ LayerIndex(layers, j) = LayerIndex(layers, id))
                      => id \notin Descendants(edges, j)

C29_Witness ==
    /\ mode = "plan"
    /\ planned
    /\ ValidDAG(nodes, edges)
    /\ Len(nodes) = 3
    /\ \E id \in NodeIds(nodes) : \E q, r \in Preds(edges, id) :
          /\ LayerIndex(layers, q) = 1
          /\ LayerIndex(layers, r) = 2
          /\ LayerIndex(layers, id) = 3
          /\ r \in Descendants(edges, q)


\* largest attempt number for which the waitTime expression is evaluated
MaxAttemptNo == 6

\* C30: the waits of executeGeminiWithRetry are 1000 ms after attempt 1 and
\* 2000 ms after attempt 2 (min(1000 * 2^(n-1), 5000) after attempt n); a wait
\* starts only after a failed attempt that is not the last one and is followed
\* by the next attempt, so there is none before the first attempt and none
\* after the last; the waitTime expression never exceeds 5000 ms.
C30_BackoffSchedule ==
    /\ [](/\ Len(waits) <= MaxRetries - 1
          /\ \A i \in 1..Len(waits) : waits[i] = <<BackoffBase, 2 * BackoffBase>>[i]
          /\ \A i \in 1..Len(waits) : waits[i] = Min({BackoffBase * 2^(i - 1), BackoffCap})
          /\ calls = 0 => waits = <<>>
          /\ dpc = "wait" => Len(waits) = calls /\ calls < MaxRetries
          /\ (Returned /\ attempt >= 1) => Len(waits) = calls - 1
          /\ \A n \in 1..MaxAttemptNo :
                /\ WaitTime(n) <= BackoffCap
                /\ WaitTime(n) = IF BackoffBase * 2^(n - 1) <= BackoffCap
                                THEN BackoffBase * 2^(n - 1) ELSE BackoffCap)
    /\ [][waits' # waits =>
             /\ dpc = "generating" /\ dpc' = "wait"
             /\ ~result'.success
             /\ attempt < MaxRetries
             /\ waits' = Append(waits, WaitTime(attempt))]_vars
    /\ [][dpc = "wait" => (dpc' = "attempt" /\ attempt' = attempt + 1 /\ waits' = waits)]_vars

C30_Witness ==
    /\ dpc = "responded"
    /\ waits = <<BackoffBase, 2 * BackoffBase>>
    /\ calls = MaxRetries
    /\ ~result.success
    /\ httpStatus = 503


\* the layer loop has entered the layer of id and run its synchronous part
Reached(id) ==
    /\ planned
    /\ LayerIndex(layers, id) >= 1
    /\ \/ LayerIndex(layers, id) < layerIdx
       \/ LayerIndex(layers, id) = layerIdx /\ phase # "layer"

\* the context entry of a passive node is the value declared in its data
HoldsLiteral(id) ==
    LET node == NodeOf(nodes, id)
    IN  /\ id \in DOMAIN context
        /\ node.type = "textNode" => context[id].text = node.data.text
        /\ node.type = "imageNode" => context[id].imageUrls = <<node.data.url>>
        /\ node.type = "videoNode" => context[id].videoUrl = node.data.url

Imported ==
    /\ event.handler = "handleFileChange"
    /\ event.alert = "Workflow imported successfully!"

\* C26: an imported document is accepted only when its graph is a valid DAG;
\* the import of a document whose edges form a cycle or name a node that is
\* not there leaves the canvas nodes, edges, workflow name and id as they were.
C26_ImportRevalidated ==
    /\ [](Imported => event.graph = "valid")
    /\ [][(event'.handler = "handleFileChange" /\ event'.graph = "invalid") =>
             /\ nodes' = nodes
             /\ edges' = edges
             /\ workflowName' = workflowName
             /\ workflowId' = workflowId]_vars

\* C27: importing the document that handleShare made of a non-empty canvas
\* puts the same nodes and the same edges on the canvas (same counts, same
\* values), hence the same execution layers.
C27_RoundTrip ==
    (mode = "editor" /\ Imported /\ event.own) =>
        /\ Len(shared.nodes) > 0
        /\ Len(nodes) = Len(shared.nodes)
        /\ Len(edges) = Len(shared.edges)
        /\ nodes = shared.nodes
        /\ edges = shared.edges
        /\ getExecutionLayers(nodes, edges) = getExecutionLayers(shared.nodes, shared.edges)

C27_Witness ==
    /\ mode = "editor"
    /\ Imported
    /\ event.own
    /\ nodes = shared.nodes
    /\ Len(nodes) = 2
    /\ Len(edges) = 2
    /\ \E i \in 1..Len(nodes) : nodes[i].type = "textNode" /\ nodes[i].data.text = "Describe this"
    /\ \E i \in 1..Len(nodes) : nodes[i].type = "llmNode" /\ nodes[i].data.prompt = Undefined
    /\ \E j \in 1..Len(edges) : edges[j].targetHandle = "prompt"
    /\ \E j \in 1..Len(edges) : edges[j].targetHandle = Undefined
    /\ Len(getExecutionLayers(nodes, edges)) = 2
    /\ workflowId = 0


\* the edges the Build Graph loop counts: both ends are nodes of the graph
KnownEdges(ns, es) ==
    SelectSeq(es, LAMBDA e : e.source \in NodeIds(ns) /\ e.target \in NodeIds(ns))

\* id lies on a directed cycle of the graph or can be reached from one
OnOrBehindCycle(ns, es, id) ==
    LET known == KnownEdges(ns, es)
    IN  \E c \in NodeIds(ns) :
            /\ c \in Descendants(known, c)
            /\ id = c \/ id \in Descendants(known, c)

\* C39: getExecutionLayers returns on every node and edge list (cycles,
\* self-loops, duplicate and dangling edges included), after at most one round
\* of its while loop per node, each round adding a non-empty layer; in its
\* result no node id
\* occurs twice, only node ids occur, and a node is missing from the layers
\* exactly when it lies on a directed cycle or is reachable from one.
C39_ArbitraryGraphs ==
    /\ mode = "plan" => Len(getExecutionLayers(nodes, edges)) \in 0..Len(nodes)
    /\ planned =>
          /\ \A i \in 1..Len(layers) : layers[i] # <<>>
          /\ \A i \in 1..Len(layers) : Range(layers[i]) \subseteq NodeIds(nodes)
          /\ \A id \in NodeIds(nodes) :
                /\ Occurrences(layers, id) <= 1
                /\ LayerIndex(layers, id) = 0 <=> OnOrBehindCycle(nodes, edges, id)

C39_Witness ==
    /\ mode = "plan"
    /\ planned
    /\ Len(nodes) = 3
    /\ Len(layers) = 1
    /\ \E c, id \in NodeIds(nodes) :
          /\ c # id
          /\ c \in Succs(edges, {c})
          /\ id \in Succs(edges, {c})
          /\ id \notin Descendants(KnownEdges(nodes, edges), id)
          /\ LayerIndex(layers, c) = 0
          /\ LayerIndex(layers, id) = 0


\* the layers one after the other
RECURSIVE Concat(_)
Concat(ls) == IF ls = <<>> THEN <<>> ELSE Head(ls) \o Concat(Tail(ls))

\* position of id in a sequence without repetitions (0: not in it)
PositionIn(seq, id) ==
    IF \E i \in 1..Len(seq) : seq[i] = id
    THEN CHOOSE i \in 1..Len(seq) : seq[i] = id
    ELSE 0

\* C38: on every graph the layers of getExecutionLayers, one after the other,
\* are the sequence getTopologicalOrder returns, node for node; in that
\* sequence no node comes twice and every edge between two of its nodes goes
\* forward, and on a valid DAG it holds every node.
C38_PlannerEquivalence ==
    (planned /\ sorted.done) =>
        /\ Concat(layers) = sorted.order
        /\ \A i, j \in 1..Len(sorted.order) : sorted.order[i] = sorted.order[j] => i = j
        /\ \A k \in 1..Len(edges) :
              (PositionIn(sorted.order, edges[k].source) > 0 /\
               PositionIn(sorted.order, edges[k].target) > 0)
                  => PositionIn(sorted.order, edges[k].source)
                         < PositionIn(sorted.order, edges[k].target)
        /\ ValidDAG(nodes, edges) => Range(sorted.order) = NodeIds(nodes)

C38_Witness ==
    /\ mode = "plan"
    /\ planned
    /\ sorted.done
    /\ Len(nodes) = 3
    /\ Len(layers) = 2
    /\ Len(layers[1]) = 2
    /\ sorted.order = <<2, 3, 1>>
    /\ Len(edges) = 2


\* C37: the response to a failed execution carries the status of the error
\* class of the failed generation call: 503 for an overload, 429 for a rate
\* limit (either of the two when the error shows both), 500 for anything else.
C37_StatusByErrorClass ==
    (dpc = "responded" /\ attempt >= 1 /\ ~result.success) =>
        /\ (OverloadSignal(thrown) /\ ~RateLimitSignal(thrown)) => httpStatus = 503
        /\ (RateLimitSignal(thrown) /\ ~OverloadSignal(thrown)) => httpStatus = 429
        /\ (OverloadSignal(thrown) /\ RateLimitSignal(thrown)) => httpStatus \in {503, 429}
        /\ Permanent(thrown) => httpStatus = 500


\* C34: when a run is COMPLETED, every node of the stored graph that is not a
\* Text, Image or Video node has exactly one NodeExecution record of that run,
\* and its status is SUCCESS.
C34_CompletedMeansAllRan ==
    (mode = "run" /\ runStatus = "COMPLETED") =>
        \A id \in NodeIds(nodes) :
            TypeOf(id) \notin PassiveTypes =>
                /\ Len(ExecsOf(id)) = 1
                /\ HasStatus(id, "SUCCESS")


\* C33: once the run's terminal status is written, the execution makes no
\* further NodeExecution write (create or update) and no further trigger call.
C33_QuiescentAfterTerminal ==
    [][(mode = "run" /\ runStatus \in Terminal /\ deliveries' = deliveries) =>
          /\ execs' = execs
          /\ dispatched' = dispatched
          /\ DOMAIN task' = DOMAIN task]_vars


\* C35: an execution that has set its run to RUNNING sets it to COMPLETED or
\* FAILED in the end, whatever the graph, when every unit of work settles and
\* every write succeeds.
C35_RunTerminates ==
    (mode = "run" /\ runStatus = "RUNNING") ~> (runStatus \in Terminal)

C35_Witness ==
    /\ mode = "run"
    /\ runStatus = "COMPLETED"
    /\ HasCycle(nodes, edges)
    /\ Len(layers) = 2
    /\ \E id \in DOMAIN task : task[id] = "COMPLETED" /\ LayerIndex(layers, id) = 2


\* no entry follows SUCCESS or FAILED in the status history of a record
SettledOnce(log) == \A i \in 1..(Len(log) - 1) : log[i] \notin {"SUCCESS", "FAILED"}

\* C31: a NodeExecution record written SUCCESS or FAILED keeps that status: on
\* the single-node path no status is written after it, and on the orchestrated
\* path a record is updated at most once.
C31_NodeStatusFinal ==
    /\ \A r \in 1..Len(wfRuns) :
          wfRuns[r].triggerType = "SINGLE_NODE" => SettledOnce(wfRuns[r].nodeLog)
    /\ \A id \in DOMAIN execs : \A i \in 1..Len(execs[id]) : execs[id][i].updates <= 1

\* the orchestrated half of C31 on its own
C31_OrchestratedHalf ==
    \A id \in DOMAIN execs : \A i \in 1..Len(execs[id]) :
        /\ execs[id][i].updates <= 1
        /\ execs[id][i].updates = 1 <=> execs[id][i].status \in {"SUCCESS", "FAILED"}


\* C32: when executeNodeAction has returned after creating its WorkflowRun and
\* its NodeExecution, both are terminal and agree with the result: SUCCESS and
\* COMPLETED on success, FAILED and FAILED on failure, whatever the nodeType.
C32_SingleNodeLifecycle ==
    (/\ reply.action = "executeNode"
     /\ reply.runId > 0
     /\ wfRuns[reply.runId].nodeLog # <<>>)
    => LET run == wfRuns[reply.runId]
           node == run.nodeLog[Len(run.nodeLog)]
       IN  IF reply.success
           THEN node = "SUCCESS" /\ run.status = "COMPLETED"
           ELSE node = "FAILED" /\ run.status = "FAILED"


\* C36: handleRun passes to runWorkflowAction the id handleSave returned, and
\* only after handleSave returned one; when the save gave no id (failure or
\* empty canvas) no run is started; isRunning is false whenever handleRun has
\* finished, whatever the outcome.
C36_SaveBeforeRun ==
    /\ runner.called # <<>> =>
          /\ runner.savedId # 0
          /\ runner.called = <<runner.savedId>>
          /\ ~runner.isSaving
          /\ runner.pos \in {"running", "idle"}
    /\ runner.outcome = "notSaved" => runner.called = <<>> /\ runner.savedId = 0
    /\ runner.outcome \in RunOutcomes => runner.called # <<>>
    /\ runner.pos = "idle" => ~runner.isRunning /\ ~runner.isSaving
    /\ runner.pos # "idle" => runner.isRunning

\* a run that threw after a save that created workflow 2, with a file imported
\* in between so that the editor's workflowId is 0 again
C36_Witness ==
    /\ runner.pos = "idle"
    /\ runner.outcome = "throw"
    /\ runner.called = <<2>>
    /\ workflowId = 0

\* a handleRun that ended because the save of a non-empty canvas gave no id
C36_WitnessNotSaved ==
    /\ runner.pos = "idle"
    /\ runner.outcome = "notSaved"
    /\ Len(nodes) > 0
    /\ ~runner.isRunning

====
